---- MODULE Spec2Model ----
(***************************************************************************)
(* Random-access reader for gzip-compressed tar archives.                  *)
(*                                                                         *)
(* Part I   the checkpointed DEFLATE decoder (package flate), the gzip     *)
(*          framer around it and the index reader (package gsip).          *)
(* Part II  the tar directory (package tarfs).                             *)
(*                                                                         *)
(* The window is WindowSize bytes instead of 32 KiB and the blobs are a    *)
(* few dozen bytes long; they are real gzip files (stored and fixed        *)
(* Huffman blocks, one or two members).                                    *)
(***************************************************************************)
EXTENDS Integers, Sequences, FiniteSets, TLC

(***************************************************************************)
(* Bounds                                                                  *)
(***************************************************************************)
WindowSize == 2      \* len(dd.hist); maxMatchOffset (1<<15) scaled down
Span       == 1      \* span handed to the frontier decoder by gzip.NewReader
MaxCalls   == 2      \* number of ReadAt calls made on one reader
MaxLen     == 2      \* longest buffer handed to ReadAt
NumProcs   == 2      \* goroutines that call ReadAt on the reader
MaxN       == 2      \* largest n handed to File.ReadDir
MaxRedirects == 2    \* redirects of one ReadAt that are counted

(***************************************************************************)
(* Program constants                                                       *)
(***************************************************************************)
ChanCap          == 10    \* make(chan *flate.Checkpoint, 10)
endBlockMarker   == 256
maxNumLit        == 286
maxNumDist       == 30
huffmanChunkBits == 9
gzipHeaderLen    == 10    \* RFC 1952 member header without optional fields
gzipTrailerLen   == 8     \* CRC32 + ISIZE

(***************************************************************************)
(* Inputs: gzip blobs (per member: header, DEFLATE blocks, CRC32, ISIZE)   *)
(* and what gunzip makes of them.                                          *)
(*  1: three members:                                                      *)
(*       a final stored block with the byte 1;                             *)
(*       a fixed block of the literals 2 3 4, then a final fixed block     *)
(*       with the match (distance 2, length 3);                            *)
(*       a stored block with the byte 5, then an empty final stored block  *)
(*  2: one member: a final fixed block of the literals 1 2                 *)
(***************************************************************************)
Blobs ==
  << [ z     |-> << 31, 139, 8, 0, 0, 0, 0, 0, 0, 255,
                    1, 1, 0, 254, 255, 1,
                    27, 223, 5, 165, 1, 0, 0, 0,
                    31, 139, 8, 0, 0, 0, 0, 0, 0, 255,
                    98, 98, 102, 1, 12, 8, 1,
                    200, 199, 235, 203, 6, 0, 0, 0,
                    31, 139, 8, 0, 0, 0, 0, 0, 0, 255,
                    0, 1, 0, 254, 255, 5, 1, 0, 0, 255, 255,
                    2, 27, 104, 162, 1, 0, 0, 0 >>,
       plain |-> << 1, 2, 3, 4, 3, 4, 3, 5 >> ],
     [ z     |-> << 31, 139, 8, 0, 0, 0, 0, 0, 0, 255,
                    99, 100, 2, 0,
                    146, 66, 204, 182, 2, 0, 0, 0 >>,
       plain |-> << 1, 2 >> ] >>

(***************************************************************************)
(* Small helpers                                                           *)
(***************************************************************************)
Min(a, b) == IF a < b THEN a ELSE b

Pow2(n) == 2 ^ n

\* s[from+1 .. to] in Go slice notation s[from:to]
Slice(s, from, to) == SubSeq(s, from + 1, to)

\* the low n bits of v, first bit read taken as the most significant
\* (bits.Reverse16(v) >> (16-n))
RECURSIVE Reverse(_, _)
Reverse(v, n) == IF n = 0 THEN 0
                 ELSE (v % 2) * Pow2(n - 1) + Reverse(v \div 2, n - 1)

Zeros(n) == [i \in 1..n |-> 0]

\* x := e, then the statements Op that use x.  The value is an argument, so
\* that it stands once in the formula however often Op reads it.
Bind(x, Op(_)) == Op(x)

(***************************************************************************)
(* dictDecoder: the sliding window.  A record d carries hist, wrPos,       *)
(* rdPos and full next to the other fields of the Decompressor.            *)
(***************************************************************************)
histSize(d)   == IF d.full THEN Len(d.hist) ELSE d.wrPos
availRead(d)  == d.wrPos - d.rdPos
availWrite(d) == Len(d.hist) - d.wrPos

writeByte(d, c) == [d EXCEPT !.hist[d.wrPos + 1] = c, !.wrPos = d.wrPos + 1]

\* tryWriteCopy, and writeCopy when it returns 0: copy byte by byte from
\* dist back, wrapping around, until length bytes are written or the
\* window is full.  The result carries the count in cnt.
RECURSIVE copyBytes(_, _, _, _)
copyBytes(hist, dstPos, endPos, dist) ==
  IF dstPos >= endPos THEN hist
  ELSE LET srcPos == (dstPos - dist + Len(hist)) % Len(hist)
       IN copyBytes([hist EXCEPT ![dstPos + 1] = hist[srcPos + 1]],
                    dstPos + 1, endPos, dist)

writeCopy(d, dist, length) ==
  LET endPos == Min(d.wrPos + length, Len(d.hist))
  IN [d EXCEPT !.hist  = copyBytes(d.hist, d.wrPos, endPos, dist),
               !.wrPos = endPos,
               !.cnt   = endPos - d.wrPos]

\* readFlush returns hist[rdPos:wrPos] and moves rdPos; the bytes are left
\* in toRead here, as every caller assigns them to f.toRead.
readFlush(d) ==
  LET toRead == Slice(d.hist, d.rdPos, d.wrPos)
  IN IF d.wrPos = Len(d.hist)
     THEN [d EXCEPT !.toRead = toRead, !.wrPos = 0, !.rdPos = 0, !.full = TRUE]
     ELSE [d EXCEPT !.toRead = toRead, !.rdPos = d.wrPos]

(***************************************************************************)
(* State                                                                   *)
(***************************************************************************)
VARIABLES
  blob,         \* which of Blobs the RangeSource serves
  dec,          \* every gzip.Reader made so far: id -> decoder state
  readers,      \* r.readers: id -> available (TRUE) or in use (FALSE)
  updates,      \* r.updates: checkpoints sent and not yet received
  checkpoints,  \* r.checkpoints
  decoded,      \* the reader was rebuilt by Decode from an encoded index
  call,         \* per goroutine: the ReadAt call it is in
  ncalls,       \* number of ReadAt calls started
  arch,         \* which of Archives the tarfs.FS was made from
  fsys,         \* the tarfs.FS: files, index, dirs
  restored,     \* the FS was rebuilt by tarfs.Decode from an encoded TOC
  op,           \* the last call on the FS and what it returned
  file,         \* the tarfs.File that the last Open returned
  fl,           \* a flate.Decompressor read on its own, and its last Read
  rg,           \* the HTTP range client, its server and its last ReadAt
  hp,           \* the history buffers of decoders and checkpoints, as memory
  hf,           \* a huffmanDecoder and the code lengths it was made from
  pb,           \* r.checkpoints as words of memory, its writer and a reader
  ch,           \* the sends of a Read of the frontier that are still to come
  nz,           \* a member name and the FS made of the member
  ac,           \* a gzip.Reader read turn by turn, with what it sent and returned
  sr            \* decoder id -> the section of r.ra that the decoder reads

gsipVars == <<blob, dec, readers, updates, checkpoints, decoded, call, ncalls>>
tarVars  == <<arch, fsys, restored, op, file>>
vars     == <<gsipVars, tarVars, fl, rg, hp, hf, pb, ch, nz, ac, sr>>

\* no tarfs.FS has been made / no call on it yet
NoFS == [files |-> <<>>, index |-> <<>>, dirs |-> <<>>]
NoOp == [name |-> "none", arg |-> <<>>, res |-> <<>>]

\* no File has been opened; no Decompressor is read on its own; no range
\* client has been made
NoFile   == [open |-> FALSE, Filename |-> <<>>, cursor |-> 0, got |-> <<>>,
             ns |-> <<>>]
NoFlate  == [on |-> FALSE]
NoRanger == [on |-> FALSE]
NoHeap   == [on |-> FALSE]
NoHuff   == [on |-> FALSE]
NoPub    == [on |-> FALSE]
NoChan   == [on |-> FALSE]
NoSect   == << >>            \* no decoder, no section
NoAcct == [on |-> FALSE]
NoNorm   == [on |-> FALSE]

\* a gzip member of no bytes: header, an empty final stored block, trailer
EmptyMember == << 31, 139, 8, 0, 0, 0, 0, 0, 0, 255,
                  1, 0, 0, 255, 255,
                  0, 0, 0, 0, 0, 0, 0, 0 >>

RECURSIVE Repeat(_, _)
Repeat(s, n) == IF n = 0 THEN <<>> ELSE s \o Repeat(s, n - 1)

\* a gzip member of stored blocks: 1, 2, 3 in a block that is not final, two
\* empty blocks that are not final, 4, 5 in the final block
StoredMember == << 31, 139, 8, 0, 0, 0, 0, 0, 0, 255,
                   0, 3, 0, 252, 255, 1, 2, 3,
                   0, 0, 0, 255, 255,
                   0, 0, 0, 255, 255,
                   1, 2, 0, 253, 255, 4, 5,
                   244, 153, 11, 71, 5, 0, 0, 0 >>

\* the blobs, and behind them an empty member followed by the member of
\* stored blocks, and one of more members than the channel of NewReader has
\* room for: empty ones, then the member of blob 2
Streams ==
  Blobs \o << [ z     |-> EmptyMember \o StoredMember,
                plain |-> << 1, 2, 3, 4, 5 >> ],
              [ z     |-> Repeat(EmptyMember, ChanCap + 2) \o Blobs[2].z,
                plain |-> Blobs[2].plain ] >>

Z     == Streams[blob].z      \* the bytes behind r.ra
Plain == Streams[blob].plain  \* gunzip of them
size  == Len(Z)               \* r.size

(***************************************************************************)
(* flate.Decompressor                                                      *)
(***************************************************************************)
fixedMin == 7   \* h.min of the fixed table: its shortest code length

noEOF(e) == IF e = "EOF" THEN "ErrUnexpectedEOF" ELSE e

\* fixedHuffmanDecoder.chunks[b & (huffmanNumChunks-1)] for the table that
\* init builds from the lengths of fixedHuffmanDecoderInit: 7 bits for
\* 256..279, 8 bits for 0..143 and 280..287, 9 bits for 144..255.
FixedChunk(b) ==
  LET c7 == Reverse(b, 7)
      c8 == Reverse(b, 8)
      c9 == Reverse(b, 9)
  IN IF c7 <= 23 THEN [sym |-> 256 + c7, n |-> 7]
     ELSE IF c8 <= 191 THEN [sym |-> c8 - 48, n |-> 8]
     ELSE IF c8 <= 199 THEN [sym |-> 280 + (c8 - 192), n |-> 8]
     ELSE [sym |-> 144 + (c9 - 400), n |-> 9]

\* f.b |= uint32(c) << f.nb.  moreBits is called with nb < 16 only, so the
\* 32 bits of f.b are never exceeded.
moreBits(d) ==
  IF d.roffset >= size
  THEN [d EXCEPT !.err = noEOF("EOF")]
  ELSE [d EXCEPT !.b       = d.b + Z[d.roffset + 1] * Pow2(d.nb),
                 !.nb      = d.nb + 8,
                 !.roffset = d.roffset + 1]

\* for f.nb < n { if err = f.moreBits(); err != nil { f.err = err; return } }
RECURSIVE needBits(_, _)
needBits(d, n) ==
  IF d.nb >= n THEN d
  ELSE Bind(moreBits(d), LAMBDA d1 :
         IF d1.err # "nil" THEN d1 ELSE needBits(d1, n))

\* the value of the low n bits, which are dropped; call after needBits
dropBits(d, n) == [d EXCEPT !.b = d.b \div Pow2(n), !.nb = d.nb - n]

\* huffSym(&fixedHuffmanDecoder): the symbol is left in sym
RECURSIVE huffSymLoop(_, _)
huffSymLoop(d, n) ==
  Bind(needBits(d, n), LAMBDA d1 :
    IF d1.err # "nil" THEN d1
    ELSE Bind(FixedChunk(d1.b % Pow2(huffmanChunkBits)), LAMBDA chunk :
           IF chunk.n <= d1.nb
           THEN IF chunk.n = 0
                THEN [d1 EXCEPT !.err = "Corrupt"]
                ELSE [dropBits(d1, chunk.n) EXCEPT !.sym = chunk.sym]
           ELSE huffSymLoop(d1, chunk.n)))

huffSym(d) == huffSymLoop(d, fixedMin)

\* A checkpoint as finishBlock captures it.
Checkpoint(d, woffset) ==
  [ Hist  |-> d.hist,
    In    |-> d.roffset,
    Out   |-> woffset,
    B     |-> d.b,
    NB    |-> d.nb,
    WrPos |-> d.wrPos,
    RdPos |-> d.rdPos,
    Full  |-> d.full,
    Empty |-> FALSE,
    GzipHeader |-> FALSE ]

EmitsCheckpoint(d, woffset) == d.updates /\ (woffset - d.last > d.span)

\* finishBlock that leaves the bytes it flushes at the final block out of Out
finishBlock_FlushUncounted(d) ==
  LET flush   == d.final /\ availRead(d) > 0
      d1      == IF flush THEN readFlush(d) ELSE d
      d2      == IF d.final THEN [d1 EXCEPT !.err = "EOF"] ELSE d1
      woffset == IF flush THEN d.woffset + Len(d1.toRead) ELSE d.woffset
      d3      == IF EmitsCheckpoint(d2, woffset)
                 THEN [d2 EXCEPT !.emit = <<Checkpoint(d2, d.woffset)>>,
                                 !.last = woffset]
                 ELSE d2
  IN [d3 EXCEPT !.step = "nextBlock"]

finishBlock(d) ==
  LET flush   == d.final /\ availRead(d) > 0
      d1      == IF flush THEN readFlush(d) ELSE d
      woffset == IF flush THEN d.woffset + Len(d1.toRead) ELSE d.woffset
      d2      == IF d.final THEN [d1 EXCEPT !.err = "EOF"] ELSE d1
      d3      == IF EmitsCheckpoint(d2, woffset)
                 THEN [d2 EXCEPT !.emit = <<Checkpoint(d2, woffset)>>,
                                 !.last = woffset]
                 ELSE d2
  IN [d3 EXCEPT !.step = "nextBlock"]

\* the length and the number of extra bits of length symbol v
LengthBase(v) ==
  CASE v < 265       -> [length |-> v - (257 - 3),            n |-> 0]
    [] v < 269       -> [length |-> v * 2 - (265 * 2 - 11),   n |-> 1]
    [] v < 273       -> [length |-> v * 4 - (269 * 4 - 19),   n |-> 2]
    [] v < 277       -> [length |-> v * 8 - (273 * 8 - 35),   n |-> 3]
    [] v < 281       -> [length |-> v * 16 - (277 * 16 - 67), n |-> 4]
    [] v < 285       -> [length |-> v * 32 - (281 * 32 - 131), n |-> 5]
    [] OTHER         -> [length |-> 258,                      n |-> 0]

RECURSIVE readLiteral(_), copyHistory(_)

\* from the distance symbol on: extra bits, the range check, then the copy
readDistance(d, length, sym) ==
  IF sym < 4
  THEN IF sym + 1 > histSize(d) THEN [d EXCEPT !.err = "Corrupt"]
       ELSE copyHistory([d EXCEPT !.copyLen = length, !.copyDist = sym + 1])
  ELSE IF sym < maxNumDist
  THEN LET nb == (sym - 2) \div 2
       IN Bind(needBits(d, nb), LAMBDA d1 :
            LET extra == (sym % 2) * Pow2(nb) + (d1.b % Pow2(nb))
                dist  == Pow2(nb + 1) + 1 + extra
                d2    == dropBits(d1, nb)
            IN IF d1.err # "nil" THEN d1
               ELSE IF dist > histSize(d2) THEN [d2 EXCEPT !.err = "Corrupt"]
               ELSE copyHistory([d2 EXCEPT !.copyLen = length,
                                           !.copyDist = dist]))
  ELSE [d EXCEPT !.err = "Corrupt"]

\* a length symbol v: extra length bits, then the 5-bit distance code of a
\* fixed block (f.hd == nil)
readMatch(d, v) ==
  Bind(LengthBase(v), LAMBDA lb :
    Bind(needBits(d, lb.n), LAMBDA d1 :
      IF d1.err # "nil" THEN d1
      ELSE Bind(needBits(dropBits(d1, lb.n), 5), LAMBDA d3 :
             IF d3.err # "nil" THEN d3
             ELSE readDistance(dropBits(d3, 5),
                               lb.length + (d1.b % Pow2(lb.n)),
                               Reverse(d3.b % 32, 5)))))

readLiteral(d) ==
  Bind(huffSym(d), LAMBDA d1 :
    LET v == d1.sym
    IN IF d1.err # "nil" THEN d1
       ELSE IF v < 256
       THEN Bind(writeByte(d1, v), LAMBDA d2 :
              IF availWrite(d2) = 0
              THEN [readFlush(d2) EXCEPT !.step = "huffmanBlock",
                                         !.stepState = "stateInit"]
              ELSE readLiteral(d2))
       ELSE IF v = endBlockMarker THEN finishBlock(d1)
       ELSE IF v < maxNumLit THEN readMatch(d1, v)
       ELSE [d1 EXCEPT !.err = "Corrupt"])

copyHistory(d) ==
  Bind(writeCopy(d, d.copyDist, d.copyLen), LAMBDA d1 :
    Bind([d1 EXCEPT !.copyLen = d.copyLen - d1.cnt], LAMBDA d2 :
      IF availWrite(d2) = 0 \/ d2.copyLen > 0
      THEN [readFlush(d2) EXCEPT !.step = "huffmanBlock",
                                 !.stepState = "stateDict"]
      ELSE readLiteral(d2)))

huffmanBlock(d) ==
  IF d.stepState = "stateDict" THEN copyHistory(d) ELSE readLiteral(d)

\* io.ReadFull(f.r, buf) for a buffer of n bytes: how many bytes arrive
Avail(d, n) == Min(n, IF d.roffset >= size THEN 0 ELSE size - d.roffset)

RECURSIVE writeBytes(_, _, _)
writeBytes(hist, pos, bytes) ==
  IF bytes = <<>> THEN hist
  ELSE writeBytes([hist EXCEPT ![pos + 1] = Head(bytes)], pos + 1, Tail(bytes))

copyData(d) ==
  LET want == Min(availWrite(d), d.copyLen)
      cnt  == Avail(d, want)
      d1   == [d EXCEPT !.hist    = writeBytes(d.hist, d.wrPos,
                                               Slice(Z, d.roffset, d.roffset + cnt)),
                        !.roffset = d.roffset + cnt,
                        !.copyLen = d.copyLen - cnt,
                        !.wrPos   = d.wrPos + cnt]
  IN IF cnt < want THEN [d1 EXCEPT !.err = noEOF("ErrUnexpectedEOF")]
     ELSE IF availWrite(d1) = 0 \/ d1.copyLen > 0
     THEN [readFlush(d1) EXCEPT !.step = "copyData"]
     ELSE finishBlock(d1)

dataBlock(d) ==
  LET nr == Avail(d, 4)
      d1 == [d EXCEPT !.nb = 0, !.b = 0, !.roffset = d.roffset + nr]
      n  == Z[d.roffset + 1] + Z[d.roffset + 2] * 256
      nn == Z[d.roffset + 3] + Z[d.roffset + 4] * 256
  IN IF nr < 4 THEN [d1 EXCEPT !.err = noEOF(IF nr = 0 THEN "EOF" ELSE "ErrUnexpectedEOF")]
     ELSE IF nn # 65535 - n THEN [d1 EXCEPT !.err = "Corrupt"]
     ELSE IF n = 0 THEN finishBlock(readFlush(d1))
     ELSE copyData([d1 EXCEPT !.copyLen = n])

\* Dynamic Huffman blocks are outside the inputs: no blob has one, and
\* NoDynamicBlock checks that no decoder ever meets one.
readHuffman(d) == [d EXCEPT !.err = "Dynamic"]

nextBlock(d) ==
  Bind(needBits(d, 1 + 2), LAMBDA d1 :
    LET typ == (d1.b \div 2) % 4
        d2  == [dropBits(d1, 3) EXCEPT !.final = (d1.b % 2 = 1)]
    IN IF d1.err # "nil" THEN d1
       ELSE CASE typ = 0 -> dataBlock(d2)
              [] typ = 1 -> huffmanBlock(d2)
              [] typ = 2 -> readHuffman(d2)
              [] OTHER   -> [d2 EXCEPT !.err = "Corrupt"])

\* f.step(f)
step(d) ==
  CASE d.step = "nextBlock"    -> nextBlock(d)
    [] d.step = "huffmanBlock" -> huffmanBlock(d)
    [] d.step = "copyData"     -> copyData(d)

\* A turn of Read that forgets the error once it has returned it
ReadTurn_ForgetsError(d, k) ==
  IF Len(d.toRead) > 0
  THEN LET n  == Min(k, Len(d.toRead))
           d1 == [d EXCEPT !.toRead = Slice(d.toRead, n, Len(d.toRead))]
       IN [d |-> d1, ret |-> TRUE, out |-> Slice(d.toRead, 0, n),
           rerr |-> IF Len(d1.toRead) = 0 THEN d.err ELSE "nil"]
  ELSE IF d.err # "nil"
  THEN [d |-> [d EXCEPT !.err = "nil"], ret |-> TRUE, out |-> <<>>,
        rerr |-> d.err]
  ELSE Bind(step(d), LAMBDA d1 :
         LET d2 == [d1 EXCEPT !.woffset = d1.woffset + Len(d1.toRead)]
             d3 == IF d2.err # "nil" /\ Len(d2.toRead) = 0
                   THEN LET f == readFlush(d2)
                        IN [f EXCEPT !.woffset = f.woffset + Len(f.toRead)]
                   ELSE d2
         IN [d |-> d3, ret |-> FALSE, out |-> <<>>, rerr |-> "nil"])

\* One turn of the loop of Decompressor.Read(b) with len(b) = k.  ret says
\* whether Read returns in this turn, with n bytes (in out) and error rerr.
ReadTurn(d, k) ==
  IF Len(d.toRead) > 0
  THEN LET n  == Min(k, Len(d.toRead))
           d1 == [d EXCEPT !.toRead = Slice(d.toRead, n, Len(d.toRead))]
       IN [d |-> d1, ret |-> TRUE, out |-> Slice(d.toRead, 0, n),
           rerr |-> IF Len(d1.toRead) = 0 THEN d.err ELSE "nil"]
  ELSE IF d.err # "nil"
  THEN [d |-> d, ret |-> TRUE, out |-> <<>>, rerr |-> d.err]
  ELSE Bind(step(d), LAMBDA d1 :
         LET d2 == [d1 EXCEPT !.woffset = d1.woffset + Len(d1.toRead)]
             d3 == IF d2.err # "nil" /\ Len(d2.toRead) = 0
                   THEN LET f == readFlush(d2)
                        IN [f EXCEPT !.woffset = f.woffset + Len(f.toRead)]
                   ELSE d2
         IN [d |-> d3, ret |-> FALSE, out |-> <<>>, rerr |-> "nil"])

\* Decompressor.Read(b) with len(b) = k: the turns of its loop up to the one
\* that returns
RECURSIVE DecompressorRead(_, _)
DecompressorRead(d, k) ==
  Bind(ReadTurn(d, k), LAMBDA t :
    IF t.ret THEN t ELSE DecompressorRead(t.d, k))

Woffset(d) == d.woffset

\* the fields every constructor sets alike
NewDecompressor ==
  [ roffset |-> 0, woffset |-> 0, b |-> 0, nb |-> 0,
    hist |-> Zeros(WindowSize), wrPos |-> 0, rdPos |-> 0, full |-> FALSE,
    cnt |-> 0, sym |-> 0,
    step |-> "nextBlock", stepState |-> "stateInit", final |-> FALSE,
    err |-> "nil", toRead |-> <<>>, copyLen |-> 0, copyDist |-> 0,
    span |-> 0, last |-> 0, updates |-> FALSE, emit |-> <<>>,
    zerr |-> "nil" ]

NewReaderWithSpans(span, start, upd) ==
  [NewDecompressor EXCEPT !.roffset = start, !.last = start,
                          !.span = span, !.updates = upd]

Continue(from, span, upd) ==
  [NewDecompressor EXCEPT
     !.hist    = from.Hist \o Zeros(WindowSize - Len(from.Hist)),
     !.wrPos   = from.WrPos,
     !.rdPos   = from.RdPos,
     !.full    = from.Full,
     !.b       = from.B,
     !.nb      = from.NB,
     !.roffset = from.In,
     !.woffset = from.Out,
     !.last    = from.Out,
     !.updates = upd,
     !.span    = span]

\* Reset(r, nil, roffset): a fresh decoder that keeps woffset, span and
\* updates, and takes last from woffset
Reset(d, roffset) ==
  [NewDecompressor EXCEPT
     !.last    = d.woffset,
     !.span    = d.span,
     !.updates = d.updates,
     !.woffset = d.woffset,
     !.roffset = roffset,
     !.zerr    = d.zerr]

(***************************************************************************)
(* gzip.Reader: the framer around the decompressor.  A gzip.Reader is the  *)
(* decoder record; zerr is its z.err.                                      *)
(***************************************************************************)
\* the checkpoint sent at the start of a member: no history is needed there
MemberCheckpoint(in, out) ==
  [ Hist  |-> <<>>, In |-> in, Out |-> out, B |-> 0, NB |-> 0,
    WrPos |-> 0, RdPos |-> 0, Full |-> FALSE,
    Empty |-> TRUE, GzipHeader |-> TRUE ]

\* readHeader at offset pos: the error it reports
readHeader(pos) ==
  IF pos >= size THEN "EOF"
  ELSE IF size - pos < gzipHeaderLen THEN "ErrUnexpectedEOF"
  ELSE IF Z[pos + 1] # 31 \/ Z[pos + 2] # 139 \/ Z[pos + 3] # 8 \/ Z[pos + 4] # 0
  THEN "ErrHeader"
  ELSE "nil"

\* gzip.NewReader(br, updates): the header is read, the member start is
\* announced and the decompressor starts behind the header
gzipNewReader == NewReaderWithSpans(Span, gzipHeaderLen, TRUE)

\* gzip.Continue(sr, 0, from, nil)
gzipContinue(from) == Continue(from, 0, FALSE)

\* z.Offset()
Offset(d) == Woffset(d)

\* The end of a member: trailer, then the header of the next member if
\* there is one, and Reset of the decompressor behind it.
NextMember(d) ==
  LET pos  == d.roffset + gzipTrailerLen
      herr == readHeader(pos)
      in   == pos + gzipHeaderLen
  IN IF size - d.roffset < gzipTrailerLen
     THEN [d EXCEPT !.zerr = noEOF(IF d.roffset >= size THEN "EOF"
                                   ELSE "ErrUnexpectedEOF")]
     ELSE IF herr # "nil" THEN [d EXCEPT !.zerr = herr, !.roffset = pos]
     ELSE [Reset(d, in) EXCEPT
             !.emit = IF d.updates
                      THEN <<MemberCheckpoint(in, d.woffset)>> ELSE <<>>]

\* One turn of the loops of gzip Read(p), len(p) = k > 0, and of the
\* Decompressor.Read it calls.
gzipReadTurn(d, k) ==
  IF d.zerr # "nil"
  THEN [d |-> d, ret |-> TRUE, out |-> <<>>, rerr |-> d.zerr]
  ELSE Bind(ReadTurn(d, k), LAMBDA t :
         IF ~t.ret THEN t
         ELSE IF t.rerr # "EOF"
         THEN [t EXCEPT !.d.zerr = t.rerr]
         ELSE LET d1 == NextMember(t.d)
              IN [d |-> d1, out |-> t.out, rerr |-> d1.zerr,
                  ret |-> (d1.zerr # "nil" \/ Len(t.out) > 0)])

(***************************************************************************)
(* gsip.Reader                                                             *)
(***************************************************************************)
Procs == 1..NumProcs

Frontier == 1     \* the id of the decoder NewReader starts

Idle == [pc |-> "idle", off |-> 0, len |-> 0, zr |-> 0, path |-> "none",
         rem |-> 0, buf |-> <<>>, err |-> "nil", from |-> 0,
         nth |-> 0, nockpt |-> FALSE, starved |-> FALSE]

InCall(p) == call[p].pc \notin {"idle", "done"}

\* io.NewSectionReader(r, off, n): the n bytes of r from off on, that is
\* [off, off + n); base and limit are the fields of io.SectionReader
NewSectionReader(off, n) == [base |-> off, limit |-> off + n]

Init ==
  /\ blob \in 1..Len(Blobs)
  /\ dec = (Frontier :> gzipNewReader)
  /\ readers = (Frontier :> TRUE)
  /\ updates = <<MemberCheckpoint(gzipHeaderLen, 0)>>
  /\ checkpoints = <<>>
  /\ decoded = FALSE
  /\ call = [p \in Procs |-> Idle]
  /\ ncalls = 0
  /\ arch = 0 /\ fsys = NoFS /\ restored = FALSE /\ op = NoOp
  /\ file = NoFile /\ fl = NoFlate /\ rg = NoRanger
  /\ hp = NoHeap /\ hf = NoHuff /\ pb = NoPub /\ ch = NoChan /\ nz = NoNorm /\ ac = NoAcct
  /\ sr = (Frontier :> NewSectionReader(0, size))

\* a goroutine that returns after the first checkpoint it received
Consume_Once ==
  /\ updates # <<>>
  /\ checkpoints = <<>>
  /\ checkpoints' = Append(checkpoints, Head(updates))
  /\ updates' = Tail(updates)
  /\ UNCHANGED <<blob, dec, readers, decoded, call, ncalls, tarVars, fl, rg, hp, hf, pb, ch, nz, ac, sr>>

\* the goroutine of NewReader: for checkpoint := range updates { append }
Consume ==
  /\ updates # <<>>
  /\ checkpoints' = Append(checkpoints, Head(updates))
  /\ updates' = Tail(updates)
  /\ UNCHANGED <<blob, dec, readers, decoded, call, ncalls, tarVars, fl, rg, hp, hf, pb, ch, nz, ac, sr>>

\* ReadAt(p, off) with len(p) = n, up to the end of the first locked loop
\* of acquireReader: an available reader that stands at off is taken.
\* the first loop finding no reader
Exact_Never(off) == {}

Exact(off) == {id \in DOMAIN readers : readers[id] /\ Offset(dec[id]) = off}

ReadAt(p, off, n) ==
  /\ ~InCall(p)
  /\ \A q \in Procs : q < p => InCall(q)
  /\ ncalls < MaxCalls
  /\ ncalls' = ncalls + 1
  /\ LET c == [Idle EXCEPT !.off = off, !.len = n, !.nth = ncalls + 1,
                           !.nockpt = (checkpoints = <<>>)]
     IN IF Exact(off) # {}
        THEN \E id \in Exact(off) :
               /\ readers' = [readers EXCEPT ![id] = FALSE]
               /\ call' = [call EXCEPT ![p] =
                    [c EXCEPT !.pc = "read", !.zr = id, !.path = "exact"]]
        ELSE /\ call' = [call EXCEPT ![p] = [c EXCEPT !.pc = "scan"]]
             /\ UNCHANGED readers
  /\ UNCHANGED <<blob, dec, updates, checkpoints, decoded, tarVars, fl, rg, hp, hf, pb, ch, nz, ac, sr>>

\* for _, checkpoint := range r.checkpoints { if Out > off { break }; highest = ... }
\* the index of highest, 0 for nil
RECURSIVE HighestFrom(_, _, _, _)
HighestFrom(cps, off, i, highest) ==
  IF i > Len(cps) \/ cps[i].Out > off THEN highest
  ELSE HighestFrom(cps, off, i + 1, i)

\* the scan that stops at the first checkpoint it can use
Highest_First(cps, off) == IF cps # <<>> /\ cps[1].Out <= off THEN 1 ELSE 0

Highest(cps, off) == HighestFrom(cps, off, 1, 0)

\* a name for the next decoder; Frontier names no other decoder
NewId == Cardinality(DOMAIN dec) + (IF Frontier \in DOMAIN dec THEN 1 ELSE 2)

\* the unlocked middle of acquireReader: with a checkpoint, a decoder is
\* continued from it; without, the second locked loop follows
Scan(p) ==
  /\ call[p].pc = "scan"
  /\ LET h == Highest(checkpoints, call[p].off)
     IN IF h = 0
        THEN /\ call' = [call EXCEPT ![p].pc = "fallback"]
             /\ UNCHANGED <<dec, sr>>
        ELSE /\ sr' = (NewId :> NewSectionReader(checkpoints[h].In, size)) @@ sr
             /\ dec' = (NewId :> gzipContinue(checkpoints[h])) @@ dec
             /\ call' = [call EXCEPT ![p].pc = "discard", ![p].zr = NewId,
                                     ![p].path = "resume", ![p].from = h,
                                     ![p].rem = call[p].off - checkpoints[h].Out]
  /\ UNCHANGED <<blob, readers, updates, checkpoints, decoded, ncalls, tarVars, fl, rg, hp, hf, pb, ch, nz, ac>>

\* the readers at or before off, in use or not
Behind_InUseToo(off) == {id \in DOMAIN readers : Offset(dec[id]) <= off}

\* the second locked loop: any available reader at or before off
Behind(off) == {id \in DOMAIN readers : readers[id] /\ Offset(dec[id]) <= off}

Fallback(p) ==
  /\ call[p].pc = "fallback"
  /\ IF Behind(call[p].off) # {}
     THEN \E id \in Behind(call[p].off) :
            /\ readers' = [readers EXCEPT ![id] = FALSE]
            /\ call' = [call EXCEPT ![p].pc = "discard", ![p].zr = id,
                                    ![p].path = "fallback",
                                    ![p].rem = call[p].off - Offset(dec[id])]
     ELSE /\ call' = [call EXCEPT ![p].pc = "done", ![p].err = "NoCheckpoint",
                        ![p].starved = \E q \in Procs :
                           /\ q # p /\ InCall(q)
                           /\ call[q].path \in {"exact", "fallback"}
                           /\ call[q].off <= call[p].off]
          /\ UNCHANGED readers
  /\ UNCHANGED <<blob, dec, updates, checkpoints, decoded, ncalls, tarVars, fl, rg, hp, hf, pb, ch, nz, ac, sr>>

\* io.CopyN(io.Discard, zr, n): Read is called for the bytes still to be
\* discarded until n are gone or Read fails.  The result is the decoder,
\* the checkpoints it sent on the way and the error of CopyN.
RECURSIVE CopyN(_, _, _)
CopyN(d, rem, emitted) ==
  IF rem <= 0 THEN [d |-> d, emit |-> emitted, err |-> "nil"]
  ELSE Bind(gzipReadTurn(d, rem), LAMBDA t :
         LET d1 == [t.d EXCEPT !.emit = <<>>]
             e1 == emitted \o t.d.emit
             r1 == rem - Len(t.out)
         IN IF ~t.ret \/ r1 = 0 \/ t.rerr = "nil"
            THEN CopyN(d1, r1, e1)
            ELSE [d |-> d1, emit |-> e1, err |-> t.rerr])

\* ReadFull with every early end of the stream reported as ErrUnexpectedEOF
RECURSIVE ReadFull_AlwaysUnexpected(_, _, _, _)
ReadFull_AlwaysUnexpected(d, n, buf, emitted) ==
  IF Len(buf) >= n THEN [d |-> d, emit |-> emitted, buf |-> buf, err |-> "nil"]
  ELSE Bind(gzipReadTurn(d, n - Len(buf)), LAMBDA t :
         LET d1 == [t.d EXCEPT !.emit = <<>>]
             e1 == emitted \o t.d.emit
             b1 == buf \o t.out
         IN IF ~t.ret \/ Len(b1) >= n \/ t.rerr = "nil"
            THEN ReadFull_AlwaysUnexpected(d1, n, b1, e1)
            ELSE [d |-> d1, emit |-> e1, buf |-> b1,
                  err |-> IF t.rerr = "EOF" THEN "ErrUnexpectedEOF"
                          ELSE t.rerr])

\* io.ReadFull(zr, p): Read is called for the rest of p until p is full or
\* Read fails.  buf is the part of p that was filled.
RECURSIVE ReadFull(_, _, _, _)
ReadFull(d, n, buf, emitted) ==
  IF Len(buf) >= n THEN [d |-> d, emit |-> emitted, buf |-> buf, err |-> "nil"]
  ELSE Bind(gzipReadTurn(d, n - Len(buf)), LAMBDA t :
         LET d1 == [t.d EXCEPT !.emit = <<>>]
             e1 == emitted \o t.d.emit
             b1 == buf \o t.out
         IN IF ~t.ret \/ Len(b1) >= n \/ t.rerr = "nil"
            THEN ReadFull(d1, n, b1, e1)
            ELSE [d |-> d1, emit |-> e1, buf |-> b1,
                  err |-> IF Len(b1) > 0 /\ t.rerr = "EOF"
                          THEN "ErrUnexpectedEOF" ELSE t.rerr])

\* a send that would not wait for room
Send_NoWait(emit) == updates' = updates \o emit

\* the checkpoints a decoder sends while it runs go into the channel; the
\* decoder waits while the channel has no room for them
Send(emit) ==
  /\ Len(updates) + Len(emit) <= ChanCap
  /\ updates' = updates \o emit

\* the discard of acquireReader; a continued decoder joins r.readers, in
\* use, once the discard is through
Discard(p) ==
  /\ call[p].pc = "discard"
  /\ LET c == call[p]
         r == CopyN(dec[c.zr], c.rem, <<>>)
     IN /\ Send(r.emit)
        /\ dec' = [dec EXCEPT ![c.zr] = r.d]
        /\ IF r.err = "nil"
           THEN /\ call' = [call EXCEPT ![p].pc = "read", ![p].rem = 0]
                /\ readers' = IF c.path = "resume"
                              THEN (c.zr :> FALSE) @@ readers ELSE readers
           ELSE /\ call' = [call EXCEPT ![p].pc = "done", ![p].err = r.err]
                /\ UNCHANGED readers
  /\ UNCHANGED <<blob, checkpoints, decoded, ncalls, tarVars, fl, rg, hp, hf, pb, ch, nz, ac, sr>>

\* return io.ReadFull(zr, p)
Read(p) ==
  /\ call[p].pc = "read"
  /\ LET c == call[p]
         r == ReadFull(dec[c.zr], c.len, <<>>, <<>>)
     IN /\ Send(r.emit)
        /\ dec' = [dec EXCEPT ![c.zr] = r.d]
        /\ call' = [call EXCEPT ![p].pc = "release", ![p].buf = r.buf,
                                ![p].err = r.err]
  /\ UNCHANGED <<blob, readers, checkpoints, decoded, ncalls, tarVars, fl, rg, hp, hf, pb, ch, nz, ac, sr>>

\* the deferred function of ReadAt
Release(p) ==
  /\ call[p].pc = "release"
  /\ readers' = [readers EXCEPT ![call[p].zr] = TRUE]
  /\ call' = [call EXCEPT ![p].pc = "done"]
  /\ UNCHANGED <<blob, dec, updates, checkpoints, decoded, ncalls, tarVars, fl, rg, hp, hf, pb, ch, nz, ac, sr>>

(***************************************************************************)
(* The index sidecar: Encode writes r.checkpoints as JSON, Decode makes a  *)
(* reader from it that has no decoder and no channel.                      *)
(***************************************************************************)
\* the JSON name of every field of flate.Checkpoint; all are omitempty
Tags == [ In |-> "in", Out |-> "out", B |-> "b", NB |-> "nb", Hist |-> "hist",
          WrPos |-> "wrpos", RdPos |-> "rdpos", Full |-> "full",
          Empty |-> "empty", GzipHeader |-> "header" ]

\* the zero value of every field: what omitempty leaves out and what a
\* missing member decodes to
ZeroCheckpoint ==
  [ In |-> 0, Out |-> 0, B |-> 0, NB |-> 0, Hist |-> <<>>,
    WrPos |-> 0, RdPos |-> 0, Full |-> FALSE,
    Empty |-> FALSE, GzipHeader |-> FALSE ]

\* a JSON object: the members that are present, by name
MarshalCheckpoint(c) ==
  LET present == {f \in DOMAIN Tags : c[f] # ZeroCheckpoint[f]}
  IN [t \in {Tags[f] : f \in present} |->
        c[CHOOSE f \in present : Tags[f] = t]]

UnmarshalCheckpoint(j) ==
  [f \in DOMAIN Tags |-> IF Tags[f] \in DOMAIN j THEN j[Tags[f]]
                         ELSE ZeroCheckpoint[f]]

Encode(cps) == [i \in 1..Len(cps) |-> MarshalCheckpoint(cps[i])]

Decode(index) == [i \in 1..Len(index) |-> UnmarshalCheckpoint(index[i])]

\* the frontier has decoded the whole blob and every checkpoint it sent
\* has been received
FrontierPassDone ==
  /\ Frontier \in DOMAIN dec
  /\ dec[Frontier].zerr = "EOF"
  /\ updates = <<>>

\* Encode after the frontier pass, then Decode over the same blob; the
\* calls on the new reader are counted from 0
EncodeDecode ==
  /\ ~decoded
  /\ FrontierPassDone
  /\ \A p \in Procs : ~InCall(p)
  /\ decoded' = TRUE
  /\ checkpoints' = Decode(Encode(checkpoints))
  /\ readers' = <<>>
  /\ dec' = <<>>
  /\ sr' = <<>>
  /\ call' = [p \in Procs |-> Idle]
  /\ ncalls' = 0
  /\ UNCHANGED <<blob, updates, tarVars, fl, rg, hp, hf, pb, ch, nz, ac>>

\* the offsets ReadAt is called with: those of the stream, its end and one
\* behind its end
Offs == 0..(Len(Plain) + 1)

Next ==
  \/ Consume
  \/ EncodeDecode
  \/ \E p \in Procs, off \in Offs, n \in 1..MaxLen : ReadAt(p, off, n)
  \/ \E p \in Procs : Scan(p)
  \/ \E p \in Procs : Fallback(p)
  \/ \E p \in Procs : Discard(p)
  \/ \E p \in Procs : Read(p)
  \/ \E p \in Procs : Release(p)

Spec == Init /\ [][Next]_vars

(***************************************************************************)
(* Part II: tarfs.  A string is a sequence of characters; a character is   *)
(* a string of length one.                                                 *)
(***************************************************************************)
\* the byte value of the characters that occur in the archives
Ascii ==
  [c \in {".", "/", "a", "b", "c", "d", "e", "f", "g", "h", "k", "l", "p", "q",
          "r", "s", "t", "u", "w", "x", "y"} |->
     CASE c = "." -> 46 [] c = "/" -> 47 [] c = "a" -> 97 [] c = "b" -> 98
       [] c = "c" -> 99 [] c = "e" -> 101 [] c = "h" -> 104
       [] c = "d" -> 100 [] c = "f" -> 102 [] c = "g" -> 103 [] c = "k" -> 107
       [] c = "l" -> 108 [] c = "p" -> 112 [] c = "q" -> 113 [] c = "r" -> 114
       [] c = "s" -> 115 [] c = "t" -> 116 [] c = "u" -> 117 [] c = "w" -> 119
       [] c = "x" -> 120 [] c = "y" -> 121]

\* cmp.Compare(a, b) < 0 on strings
RECURSIVE StrLess(_, _)
StrLess(a, b) ==
  IF b = <<>> THEN FALSE
  ELSE IF a = <<>> THEN TRUE
  ELSE IF a[1] # b[1] THEN Ascii[a[1]] < Ascii[b[1]]
  ELSE StrLess(Tail(a), Tail(b))

HasPrefix(s, pre) == Len(s) >= Len(pre) /\ SubSeq(s, 1, Len(pre)) = pre
HasSuffix(s, suf) ==
  Len(s) >= Len(suf) /\ SubSeq(s, Len(s) - Len(suf) + 1, Len(s)) = suf
TrimPrefix(s, pre) ==
  IF HasPrefix(s, pre) THEN SubSeq(s, Len(pre) + 1, Len(s)) ELSE s
TrimSuffix(s, suf) ==
  IF HasSuffix(s, suf) THEN SubSeq(s, 1, Len(s) - Len(suf)) ELSE s

\* a normalization that takes every slash at the front
RECURSIVE normalize_EverySlash(_)
normalize_EverySlash(s) ==
  IF HasPrefix(s, <<"/">>) THEN normalize_EverySlash(Tail(s))
  ELSE TrimPrefix(TrimSuffix(s, <<"/">>), <<".", "/">>)

normalize(s) ==
  TrimPrefix(TrimPrefix(TrimSuffix(s, <<"/">>), <<"/">>), <<".", "/">>)

\* path.IsAbs
IsAbs(s) == Len(s) > 0 /\ s[1] = "/"

\* the elements of s between slashes, empty ones left out
RECURSIVE Elements(_)
Elements(s) ==
  IF s = <<>> THEN <<>>
  ELSE IF s[1] = "/" THEN Elements(Tail(s))
  ELSE LET n == IF \E i \in 1..Len(s) : s[i] = "/"
                THEN (CHOOSE i \in 1..Len(s) :
                        s[i] = "/" /\ \A j \in 1..(i - 1) : s[j] # "/") - 1
                ELSE Len(s)
       IN <<SubSeq(s, 1, n)>> \o Elements(SubSeq(s, n + 1, Len(s)))

\* the elements put together again with slashes between them
RECURSIVE Glue(_)
Glue(es) ==
  IF es = <<>> THEN <<>>
  ELSE IF Len(es) = 1 THEN es[1]
  ELSE es[1] \o <<"/">> \o Glue(Tail(es))

Dot    == <<".">>
DotDot == <<".", ".">>

\* path.Clean on the elements: "." goes, ".." takes the element before it
\* with it, and goes alone at the start of a rooted path
RECURSIVE CleanElements(_, _, _)
CleanElements(es, out, rooted) ==
  IF es = <<>> THEN out
  ELSE LET e == Head(es)
       IN IF e = Dot THEN CleanElements(Tail(es), out, rooted)
          ELSE IF e # DotDot
          THEN CleanElements(Tail(es), Append(out, e), rooted)
          ELSE IF out # <<>> /\ out[Len(out)] # DotDot
          THEN CleanElements(Tail(es), SubSeq(out, 1, Len(out) - 1), rooted)
          ELSE IF rooted THEN CleanElements(Tail(es), out, rooted)
          ELSE CleanElements(Tail(es), Append(out, e), rooted)

\* path.Clean
Clean(s) ==
  LET body == Glue(CleanElements(Elements(s), <<>>, IsAbs(s)))
  IN IF IsAbs(s) THEN <<"/">> \o body
     ELSE IF body = <<>> THEN Dot ELSE body

\* path.Join: empty elements are ignored, the rest joined and cleaned
RECURSIVE JoinRaw(_)
JoinRaw(elems) ==
  IF elems = <<>> THEN <<>>
  ELSE IF Head(elems) = <<>> THEN JoinRaw(Tail(elems))
  ELSE LET rest == JoinRaw(Tail(elems))
       IN IF rest = <<>> THEN Head(elems) ELSE Head(elems) \o <<"/">> \o rest

Join(elems) == IF JoinRaw(elems) = <<>> THEN <<>> ELSE Clean(JoinRaw(elems))

\* the position of the last slash of s, 0 if there is none
LastSlash(s) ==
  IF \E i \in 1..Len(s) : s[i] = "/"
  THEN CHOOSE i \in 1..Len(s) : s[i] = "/" /\ \A j \in (i + 1)..Len(s) : s[j] # "/"
  ELSE 0

\* path.Dir
Dir(s) == Clean(SubSeq(s, 1, LastSlash(s)))

\* path.Base
RECURSIVE Base(_)
Base(s) ==
  IF s = <<>> THEN Dot
  ELSE IF s[Len(s)] = "/"
  THEN IF Len(s) = 1 THEN <<"/">> ELSE Base(SubSeq(s, 1, Len(s) - 1))
  ELSE SubSeq(s, LastSlash(s) + 1, Len(s))

\* tar.TypeReg, tar.TypeLink, tar.TypeSymlink, tar.TypeDir
TypeReg     == "0"
TypeLink    == "1"
TypeSymlink == "2"
TypeDir     == "5"

maxHops   == 255
blockSize == 512      \* a tar header, and the unit payloads are padded to

Hdr(name, typeflag, linkname, sz) ==
  [Name |-> name, Typeflag |-> typeflag, Linkname |-> linkname, Size |-> sz]

(***************************************************************************)
(* Inputs: tar archives, as the headers tar.Reader.Next returns in order.  *)
(*  1: the archive of TestSymlinkedDirs (usr = u, bin = b, binary = f,     *)
(*     weird = w, linked = l, absolute = a, relative = r)                  *)
(*  2: links at the root, a chain of links, a relative link to a           *)
(*     directory from inside a directory, names written with "./", "/"     *)
(*     and a trailing "/"                                                  *)
(*  3: link cycles, a hard link, a link that leads nowhere                 *)
(*  4: a member for the root ("./"), two members that normalize to the     *)
(*     same name ("./a" and "a"), a directory with three children          *)
(*  5: a member named "." that is a regular file                           *)
(*  6: two members for the root ("./" and "."), a file in a directory that *)
(*     has no member of its own ("e/f"), a file and a symlink of one name  *)
(*     ("c"), a symlink below a symlink ("s" and "s/t"), a hard link that  *)
(*     carries the size of its target                                      *)
(***************************************************************************)
Archives ==
  << << Hdr(<<"u">>, TypeDir, <<>>, 0),
        Hdr(<<"u", "/", "b">>, TypeDir, <<>>, 0),
        Hdr(<<"u", "/", "b", "/", "f">>, TypeReg, <<>>, 24),
        Hdr(<<"w">>, TypeDir, <<>>, 0),
        Hdr(<<"w", "/", "l">>, TypeSymlink, <<"/", "u", "/", "b">>, 0),
        Hdr(<<"w", "/", "a">>, TypeDir, <<>>, 0),
        Hdr(<<"w", "/", "a", "/", "f">>, TypeSymlink,
            <<"/", "w", "/", "l", "/", "f">>, 0),
        Hdr(<<"w", "/", "r">>, TypeDir, <<>>, 0),
        Hdr(<<"w", "/", "r", "/", "f">>, TypeSymlink,
            <<".", ".", "/", "l", "/", "f">>, 0) >>,
     << Hdr(<<".", "/", "d", "/">>, TypeDir, <<>>, 0),
        Hdr(<<".", "/", "d", "/", "g">>, TypeReg, <<>>, 600),
        Hdr(<<"/", "k">>, TypeReg, <<>>, 5),
        Hdr(<<"s">>, TypeSymlink, <<"d">>, 0),
        Hdr(<<"t">>, TypeSymlink, <<"s">>, 0),
        Hdr(<<"x", "/">>, TypeDir, <<>>, 0),
        Hdr(<<"x", "/", "y">>, TypeSymlink, <<".", ".", "/", "d">>, 0),
        Hdr(<<"x", "/", "b">>, TypeSymlink, <<"y", "/", "g">>, 0) >>,
     << Hdr(<<"p">>, TypeSymlink, <<"q">>, 0),
        Hdr(<<"q">>, TypeSymlink, <<"/", "p">>, 0),
        Hdr(<<"d">>, TypeDir, <<>>, 0),
        Hdr(<<"d", "/", "f">>, TypeReg, <<>>, 1),
        Hdr(<<"d", "/", "l">>, TypeLink, <<"d", "/", "f">>, 0),
        Hdr(<<"d", "/", "u">>, TypeSymlink, <<".", ".", "/", "d">>, 0),
        Hdr(<<"a">>, TypeSymlink, <<"b">>, 0) >>,
     << Hdr(<<".", "/">>, TypeDir, <<>>, 0),
        Hdr(<<".", "/", "a">>, TypeReg, <<>>, 3),
        Hdr(<<"a">>, TypeReg, <<>>, 7),
        Hdr(<<"b", "/">>, TypeDir, <<>>, 0),
        Hdr(<<"b", "/", "f">>, TypeReg, <<>>, 2),
        Hdr(<<"b", "/", "d">>, TypeReg, <<>>, 1),
        Hdr(<<"b", "/", "a">>, TypeReg, <<>>, 0) >>,
     << Hdr(<<".">>, TypeReg, <<>>, 4),
        Hdr(<<"d", "/">>, TypeDir, <<>>, 0),
        Hdr(<<"d", "/", "f">>, TypeReg, <<>>, 2) >>,
     << Hdr(<<".", "/">>, TypeDir, <<>>, 0),
        Hdr(<<".">>, TypeDir, <<>>, 0),
        Hdr(<<"e", "/", "f">>, TypeReg, <<>>, 1500),
        Hdr(<<"c">>, TypeReg, <<>>, 2),
        Hdr(<<"s">>, TypeSymlink, <<"e">>, 0),
        Hdr(<<"s", "/", "t">>, TypeSymlink, <<"/", "e">>, 0),
        Hdr(<<"c">>, TypeSymlink, <<"e", "/", "f">>, 0),
        Hdr(<<"h">>, TypeLink, <<"e", "/", "f">>, 1500) >> >>

\* names asked for besides the names of the entries
OtherNames ==
  << { <<".">>, <<"w", "/", "l", "/", "f">>, <<"w", "/", "l">>,
       <<"w", "/", "l", "/", "g">>, <<"u", "/", "g">> },
     { <<".">>, <<"s", "/", "g">>, <<"t", "/", "g">>, <<"x", "/", "y", "/", "g">>,
       <<"x", "/", "g">> },
     { <<".">>, <<"p", "/", "f">>, <<"d", "/", "u", "/", "f">>,
       <<"d", "/", "u", "/", "u", "/", "l">>, <<"a", "/", "f">> },
     { <<".">>, <<"b", "/", "g">> },
     { <<".">>, <<"f">> },
     { <<".">>, <<"e">>, <<"s", "/", "f">>, <<"s", "/", "t", "/", "f">> } >>

\* archive/tar: a link and a directory have no data in the archive, whatever
\* size their header gives; tar.Reader.Next leaves hdr.Size as the header has it
isHeaderOnlyType(flag) == flag \in {TypeLink, TypeSymlink, TypeDir}

\* the bytes member i takes in the archive after its header: its payload,
\* padded to whole blocks
Padded(hdrs, i) ==
  IF isHeaderOnlyType(hdrs[i].Typeflag) THEN 0
  ELSE ((hdrs[i].Size + blockSize - 1) \div blockSize) * blockSize

\* cr.n when tr.Next returns header i: the headers so far and the padded
\* payloads before it
RECURSIVE PayloadOffset(_, _)
PayloadOffset(hdrs, i) ==
  IF i = 1 THEN blockSize
  ELSE PayloadOffset(hdrs, i - 1) + Padded(hdrs, i - 1) + blockSize

\* hdr.FileInfo(): Name(), Size(), Mode().Type()
FileInfo(h) ==
  [name |-> IF h.Typeflag = TypeDir THEN Base(Clean(h.Name)) ELSE Base(h.Name),
   size |-> h.Size,
   type |-> h.Typeflag]

\* root{}
root == [name |-> Dot, size |-> 0, type |-> TypeDir]

\* the index of a list of files: the last file of every name
IndexOf(files) ==
  [n \in {files[i].Filename : i \in 1..Len(files)} |->
     CHOOSE i \in 1..Len(files) :
       /\ files[i].Filename = n
       /\ \A j \in (i + 1)..Len(files) : files[j].Filename # n]

\* slices.SortFunc by Name(): file i is put before the first file of a
\* greater name
RECURSIVE Insert(_, _, _)
Insert(sorted, i, files) ==
  IF sorted = <<>> THEN <<i>>
  ELSE IF StrLess(FileInfo(files[i].Header).name,
                  FileInfo(files[Head(sorted)].Header).name)
  THEN <<i>> \o sorted
  ELSE <<Head(sorted)>> \o Insert(Tail(sorted), i, files)

RECURSIVE SortByName(_, _)
SortByName(is, files) ==
  IF is = <<>> THEN <<>>
  ELSE Insert(SortByName(SubSeq(is, 1, Len(is) - 1), files), is[Len(is)], files)

\* the files of directory dir in the order of files
RECURSIVE FilesIn(_, _, _)
FilesIn(files, dir, i) ==
  IF i > Len(files) THEN <<>>
  ELSE (IF files[i].dir = dir THEN <<i>> ELSE <<>>) \o FilesIn(files, dir, i + 1)

\* New(ra, size)
New(hdrs) ==
  LET files == [i \in 1..Len(hdrs) |->
                  [Header   |-> hdrs[i],
                   Offset   |-> PayloadOffset(hdrs, i),
                   Filename |-> normalize(hdrs[i].Name),
                   dir      |-> Dir(normalize(hdrs[i].Name))]]
  IN [files |-> files,
      index |-> IndexOf(files),
      dirs  |-> [d \in {files[i].dir : i \in 1..Len(files)} |->
                   SortByName(FilesIn(files, d, 1), files)]]

\* fsys.Entry(name): the place of the entry in files, 0 for fs.ErrNotExist
Entry(fs, name) == IF name \in DOMAIN fs.index THEN fs.index[name] ELSE 0

\* dirs(name): what stands before each slash of name, shortest first
RECURSIVE dirs(_, _)
dirs(name, i) ==
  IF i > Len(name) THEN <<>>
  ELSE (IF name[i] = "/" THEN <<SubSeq(name, 1, i - 1)>> ELSE <<>>)
       \o dirs(name, i + 1)

\* the last of ds, from place i on, that is the name of a symlink
FirstSymlink_Longest(fs, ds, i) ==
  LET links == {k \in i..Len(ds) :
                  /\ Entry(fs, ds[k]) # 0
                  /\ fs.files[Entry(fs, ds[k])].Header.Typeflag = TypeSymlink}
  IN IF links = {} THEN 0
     ELSE CHOOSE k \in links : \A j \in links : j <= k

\* the first of ds that is the name of a symlink, 0 if none is
RECURSIVE FirstSymlink(_, _, _)
FirstSymlink(fs, ds, i) ==
  IF i > Len(ds) THEN 0
  ELSE IF /\ Entry(fs, ds[i]) # 0
          /\ fs.files[Entry(fs, ds[i])].Header.Typeflag = TypeSymlink
  THEN i
  ELSE FirstSymlink(fs, ds, i + 1)

\* the symlinked directory open rewrites name through when name is no
\* entry: the first of dirs(name) that is a symlink; 0 if there is none
LinkedDir(fs, name) == FirstSymlink(fs, dirs(name, 1), 1)

\* open(name, hops) calls open again: name is a link, or is no entry and
\* lies under a symlinked directory
Follows(fs, name) ==
  IF Entry(fs, name) = 0 THEN LinkedDir(fs, name) # 0
  ELSE fs.files[Entry(fs, name)].Header.Typeflag \in {TypeSymlink, TypeLink}

\* NextName with the rest of the name put under the target of a relative
\* link alone, not under the directory the link is in
NextName_NoLinkDir(fs, name) ==
  IF Entry(fs, name) = 0
  THEN LET dir  == dirs(name, 1)[LinkedDir(fs, name)]
           e    == fs.files[Entry(fs, dir)]
           rest == TrimPrefix(name, dir)
           link == e.Header.Linkname
       IN IF IsAbs(link) THEN normalize(Join(<<link, rest>>))
          ELSE Join(<<link, rest>>)
  ELSE LET e    == fs.files[Entry(fs, name)]
           link == e.Header.Linkname
       IN IF IsAbs(link) \/ e.Header.Typeflag = TypeLink THEN normalize(link)
          ELSE Join(<<e.dir, link>>)

\* the name open calls itself with
NextName(fs, name) ==
  IF Entry(fs, name) = 0
  THEN LET dir  == dirs(name, 1)[LinkedDir(fs, name)]
           e    == fs.files[Entry(fs, dir)]
           rest == TrimPrefix(name, dir)
           link == e.Header.Linkname
       IN IF IsAbs(link) THEN normalize(Join(<<link, rest>>))
          ELSE Join(<<e.dir, link, rest>>)
  ELSE LET e    == fs.files[Entry(fs, name)]
           link == e.Header.Linkname
       IN IF IsAbs(link) \/ e.Header.Typeflag = TypeLink THEN normalize(link)
          ELSE Join(<<e.dir, link>>)

\* One call of open with the limit checked one hop early: hops >= maxHops
Hop_LimitAtMaxHops(fs, c) ==
  IF c.done THEN c
  ELSE IF c.hops >= maxHops
  THEN [c EXCEPT !.done = TRUE, !.err = "TooManySymlinks",
                 !.calls = c.calls + 1]
  ELSE IF Follows(fs, c.name)
  THEN [c EXCEPT !.name = NextName(fs, c.name), !.hops = c.hops + 1,
                 !.calls = c.calls + 1]
  ELSE IF Entry(fs, c.name) = 0
  THEN [c EXCEPT !.done = TRUE, !.err = "ErrNotExist", !.calls = c.calls + 1]
  ELSE [c EXCEPT !.done = TRUE, !.file = Entry(fs, c.name),
                 !.calls = c.calls + 1]

\* One call of open.  c is the call: its name and hops, and in calls the
\* number of calls of open made before it; once a call has returned without
\* calling open again, c holds what it returned: the error and the place in
\* files of File.Entry.
Hop(fs, c) ==
  IF c.done THEN c
  ELSE IF c.hops > maxHops
  THEN [c EXCEPT !.done = TRUE, !.err = "TooManySymlinks",
                 !.calls = c.calls + 1]
  ELSE IF Follows(fs, c.name)
  THEN [c EXCEPT !.name = NextName(fs, c.name), !.hops = c.hops + 1,
                 !.calls = c.calls + 1]
  ELSE IF Entry(fs, c.name) = 0
  THEN [c EXCEPT !.done = TRUE, !.err = "ErrNotExist", !.calls = c.calls + 1]
  ELSE [c EXCEPT !.done = TRUE, !.file = Entry(fs, c.name),
                 !.calls = c.calls + 1]

\* n calls of open, one after the other
RECURSIVE Hops(_, _, _)
Hops(fs, c, n) ==
  IF n <= 0 THEN c
  ELSE IF n = 1 THEN Hop(fs, c)
  ELSE LET h == Hops(fs, c, n \div 2)
       IN IF h.done THEN h ELSE Hops(fs, h, n - (n \div 2))

\* fsys.open(name, hops): open calls itself with hops + 1 until it returns,
\* which it does at the latest when hops is maxHops + 1
open(fs, name, hops) ==
  Hops(fs, [name |-> name, hops |-> hops, done |-> FALSE,
            err |-> "nil", file |-> 0, calls |-> 0], maxHops + 2 - hops)

\* the File of a result of open: its Entry's name and info and the section
\* of the archive it reads; the root File has the place 0 and reads nothing
FileOf(fs, r) ==
  IF r.err # "nil" THEN [err |-> r.err]
  ELSE IF r.file = 0
  THEN [err |-> "nil", Filename |-> Dot, fi |-> root, Offset |-> 0, Size |-> 0]
  ELSE [err |-> "nil", Filename |-> fs.files[r.file].Filename,
        fi |-> FileInfo(fs.files[r.file].Header),
        Offset |-> fs.files[r.file].Offset,
        Size |-> fs.files[r.file].Header.Size]

\* fsys.Open(name)
Open(fs, name) ==
  IF name = Dot THEN FileOf(fs, [err |-> "nil", file |-> 0])
  ELSE FileOf(fs, open(fs, name, 0))

\* fsys.Stat(name)
Stat(fs, name) ==
  IF Entry(fs, name) # 0
  THEN [err |-> "nil", fi |-> FileInfo(fs.files[Entry(fs, name)].Header)]
  ELSE IF name = Dot THEN [err |-> "nil", fi |-> root]
  ELSE [err |-> "ErrNotExist"]

\* fsys.ReadDir(name): the Filename and info of the entries listed
ReadDir(fs, name) ==
  IF name \in DOMAIN fs.dirs
  THEN [k \in 1..Len(fs.dirs[name]) |->
          [Filename |-> fs.files[fs.dirs[name][k]].Filename,
           fi |-> FileInfo(fs.files[fs.dirs[name][k]].Header)]]
  ELSE <<>>

\* File.ReadDir(n) that returns the next n entries and leaves the cursor
\* where it was
FileReadDir_NoAdvance(fs, f, n) ==
  IF n = 0 THEN [cursor |-> f.cursor, entries |-> <<>>, err |-> "nil"]
  ELSE IF f.cursor >= Len(ReadDir(fs, f.Filename))
  THEN [cursor |-> f.cursor, entries |-> <<>>,
        err |-> IF n < 0 THEN "nil" ELSE "EOF"]
  ELSE IF n > 0 /\ Len(ReadDir(fs, f.Filename)) - f.cursor > n
  THEN [cursor |-> f.cursor,
        entries |-> Slice(ReadDir(fs, f.Filename), f.cursor, f.cursor + n),
        err |-> "nil"]
  ELSE [cursor |-> Len(ReadDir(fs, f.Filename)),
        entries |-> Slice(ReadDir(fs, f.Filename), f.cursor,
                          Len(ReadDir(fs, f.Filename))),
        err |-> "nil"]

\* f.ReadDir(n) on the File f of fs: the cursor afterwards, the entries and
\* the error returned.  n = 0 returns at once; at the end of the listing
\* n < 0 returns nothing and n > 0 io.EOF; else the next n entries when more
\* than n are left, and all that are left otherwise
FileReadDir(fs, f, n) ==
  IF n = 0 THEN [cursor |-> f.cursor, entries |-> <<>>, err |-> "nil"]
  ELSE IF f.cursor >= Len(ReadDir(fs, f.Filename))
  THEN [cursor |-> f.cursor, entries |-> <<>>,
        err |-> IF n < 0 THEN "nil" ELSE "EOF"]
  ELSE IF n > 0 /\ Len(ReadDir(fs, f.Filename)) - f.cursor > n
  THEN [cursor |-> f.cursor + n,
        entries |-> Slice(ReadDir(fs, f.Filename), f.cursor, f.cursor + n),
        err |-> "nil"]
  ELSE [cursor |-> Len(ReadDir(fs, f.Filename)),
        entries |-> Slice(ReadDir(fs, f.Filename), f.cursor,
                          Len(ReadDir(fs, f.Filename))),
        err |-> "nil"]

\* fsys.Readlink(name)
Readlink(fs, name) ==
  IF Entry(fs, name) = 0 THEN [err |-> "ErrNotExist"]
  ELSE IF fs.files[Entry(fs, name)].Header.Typeflag \in {TypeSymlink, TypeLink}
  THEN [err |-> "nil", link |-> fs.files[Entry(fs, name)].Header.Linkname]
  ELSE [err |-> "NotALink"]

\* fsys.Encode(w): the JSON of TOC{Entries: fsys.files}; of an Entry the
\* exported fields are written: Header, Offset, Filename
EncodeTOC(fs) ==
  [i \in 1..Len(fs.files) |->
     [Header   |-> fs.files[i].Header,
      Offset   |-> fs.files[i].Offset,
      Filename |-> fs.files[i].Filename]]

\* Decode(ra, r): files are the decoded entries, the index is made from
\* their Filename; dirs stays nil and dir the empty string
DecodeTOC(toc) ==
  LET files == [i \in 1..Len(toc) |->
                  [Header   |-> toc[i].Header,
                   Offset   |-> toc[i].Offset,
                   Filename |-> toc[i].Filename,
                   dir      |-> <<>>]]
  IN [files |-> files, index |-> IndexOf(files), dirs |-> <<>>]

\* the names the calls are made with
Names == {fsys.files[i].Filename : i \in 1..Len(fsys.files)} \cup OtherNames[arch]

TarInit ==
  /\ arch \in 1..Len(Archives)
  /\ fsys = New(Archives[arch])
  /\ restored = FALSE
  /\ op = NoOp
  /\ blob = 1 /\ dec = <<>> /\ readers = <<>> /\ updates = <<>>
  /\ checkpoints = <<>> /\ decoded = FALSE
  /\ call = [p \in Procs |-> Idle] /\ ncalls = 0
  /\ file = NoFile /\ fl = NoFlate /\ rg = NoRanger
  /\ hp = NoHeap /\ hf = NoHuff /\ pb = NoPub /\ ch = NoChan /\ nz = NoNorm /\ ac = NoAcct /\ sr = NoSect

\* the File of a successful Open, its cursor at the start of the listing;
\* got and ns keep what its ReadDir calls returned so far and with which n
DoOpen(name) ==
  /\ op' = [name |-> "Open", arg |-> name, res |-> Open(fsys, name)]
  /\ file' = IF Open(fsys, name).err = "nil"
             THEN [NoFile EXCEPT !.open = TRUE,
                                 !.Filename = Open(fsys, name).Filename]
             ELSE NoFile
  /\ UNCHANGED <<arch, fsys, restored, gsipVars, fl, rg, hp, hf, pb, ch, nz, ac, sr>>

DoStat(name) ==
  /\ op' = [name |-> "Stat", arg |-> name, res |-> Stat(fsys, name)]
  /\ UNCHANGED <<arch, fsys, restored, file, gsipVars, fl, rg, hp, hf, pb, ch, nz, ac, sr>>

DoReadDir(name) ==
  /\ op' = [name |-> "ReadDir", arg |-> name, res |-> ReadDir(fsys, name)]
  /\ UNCHANGED <<arch, fsys, restored, file, gsipVars, fl, rg, hp, hf, pb, ch, nz, ac, sr>>

DoReadlink(name) ==
  /\ op' = [name |-> "Readlink", arg |-> name, res |-> Readlink(fsys, name)]
  /\ UNCHANGED <<arch, fsys, restored, file, gsipVars, fl, rg, hp, hf, pb, ch, nz, ac, sr>>

\* file.ReadDir(n) on the File of the last Open
DoFileReadDir(n) ==
  /\ file.open
  /\ op' = [name |-> "File.ReadDir", arg |-> n, before |-> file.cursor,
            res |-> [entries |-> FileReadDir(fsys, file, n).entries,
                     err |-> FileReadDir(fsys, file, n).err]]
  /\ file' = [file EXCEPT
       !.cursor = FileReadDir(fsys, file, n).cursor,
       !.got = file.got \o FileReadDir(fsys, file, n).entries,
       !.ns = IF FileReadDir(fsys, file, n).entries = <<>> THEN file.ns
              ELSE Append(file.ns, n)]
  /\ UNCHANGED <<arch, fsys, restored, gsipVars, fl, rg, hp, hf, pb, ch, nz, ac, sr>>

\* Encode, then Decode of what was written
DoEncodeDecode ==
  /\ ~restored
  /\ restored' = TRUE
  /\ fsys' = DecodeTOC(EncodeTOC(fsys))
  /\ op' = NoOp
  /\ file' = NoFile
  /\ UNCHANGED <<arch, gsipVars, fl, rg, hp, hf, pb, ch, nz, ac, sr>>

TarNext ==
  \/ \E name \in Names : DoOpen(name)
  \/ \E name \in Names : DoStat(name)
  \/ \E name \in Names : DoReadDir(name)
  \/ \E name \in Names : DoReadlink(name)
  \/ \E n \in -1..MaxN : DoFileReadDir(n)
  \/ DoEncodeDecode

SpecTar == TarInit /\ [][TarNext]_vars

(***************************************************************************)
(* Part III: a flate.Decompressor read on its own.  The reader is made on  *)
(* the bytes of a blob from some offset on, so that it meets the streams   *)
(* of the members, streams cut short and bytes that are no stream.         *)
(***************************************************************************)
\* fl.seen is the first error a Read of the decoder returned, fl.late says
\* that the last Read was called after that; fl.from is Woffset() of the new
\* decoder and fl.n the number of bytes its Reads have returned
FlateInit ==
  /\ blob \in 1..Len(Blobs)
  /\ \E start \in 0..size :
       fl = [on |-> TRUE, d |-> NewReaderWithSpans(0, start, FALSE),
             seen |-> "nil", late |-> FALSE, out |-> <<>>, rerr |-> "nil",
             from |-> Woffset(NewReaderWithSpans(0, start, FALSE)), n |-> 0]
  /\ dec = <<>> /\ readers = <<>> /\ updates = <<>>
  /\ checkpoints = <<>> /\ decoded = FALSE
  /\ call = [p \in Procs |-> Idle] /\ ncalls = 0
  /\ arch = 0 /\ fsys = NoFS /\ restored = FALSE /\ op = NoOp
  /\ file = NoFile /\ rg = NoRanger
  /\ hp = NoHeap /\ hf = NoHuff /\ pb = NoPub /\ ch = NoChan /\ nz = NoNorm /\ ac = NoAcct /\ sr = NoSect

\* f.Read(b) with len(b) = k.  A stream with a dynamic Huffman block is not
\* read further than that block.
FlateRead(k) ==
  /\ fl.on
  /\ DecompressorRead(fl.d, k).d.err # "Dynamic"
  /\ fl' = [fl EXCEPT
       !.d    = DecompressorRead(fl.d, k).d,
       !.out  = DecompressorRead(fl.d, k).out,
       !.rerr = DecompressorRead(fl.d, k).rerr,
       !.n    = fl.n + Len(DecompressorRead(fl.d, k).out),
       !.late = fl.seen # "nil",
       !.seen = IF fl.seen # "nil" THEN fl.seen
                ELSE DecompressorRead(fl.d, k).rerr]
  /\ UNCHANGED <<gsipVars, tarVars, rg, hp, hf, pb, ch, nz, ac, sr>>

FlateNext == \E k \in 0..MaxLen : FlateRead(k)

SpecFlate == FlateInit /\ [][FlateNext]_vars

(***************************************************************************)
(* Part IV: the HTTP range client (ranger.Reader).  The file behind the    *)
(* server is the blob Z.  A server answers the requests for each of its    *)
(* URIs in one way, drawn from Answers.                                    *)
(***************************************************************************)
\* the URI the Reader is made with and another one
URIs == {1, 2}

\* the offsets ReadAt is called with: of one digit and of two, and those
\* around the end of the file
Offsets == {0, 1, 9, 10, 11, size - 2, size - 1, size}

DigitChars == <<"0", "1", "2", "3", "4", "5", "6", "7", "8", "9">>

\* fmt.Sprintf("%d", n)
RECURSIVE FormatNat(_)
FormatNat(n) ==
  IF n < 10 THEN <<DigitChars[n + 1]>>
  ELSE Append(FormatNat(n \div 10), DigitChars[(n % 10) + 1])

FormatInt(n) == IF n < 0 THEN <<"-">> \o FormatNat(0 - n) ELSE FormatNat(n)

\* a Range header that gives the length where the last offset belongs
RangeHeader_LengthAsLast(off, n) ==
  <<"b", "y", "t", "e", "s", "=">> \o FormatInt(off) \o <<"-">>
    \o FormatInt(n)

\* fmt.Sprintf("bytes=%d-%d", off, off+int64(len(p))-1)
RangeHeader(off, n) ==
  <<"b", "y", "t", "e", "s", "=">> \o FormatInt(off) \o <<"-">>
    \o FormatInt(off + n - 1)

\* the number a string of digits writes; -1 when it is empty or has another
\* character
RECURSIVE ParseNat(_)
ParseNat(str) ==
  IF str = <<>> THEN -1
  ELSE LET c    == str[Len(str)]
           d    == IF \E i \in 1..10 : DigitChars[i] = c
                   THEN (CHOOSE i \in 1..10 : DigitChars[i] = c) - 1 ELSE -1
           high == IF Len(str) = 1 THEN 0 ELSE ParseNat(SubSeq(str, 1, Len(str) - 1))
       IN IF d < 0 \/ high < 0 THEN -1 ELSE high * 10 + d

\* the place of the first "-" of str, 0 if it has none
Dash(str) ==
  IF \E i \in 1..Len(str) : str[i] = "-"
  THEN CHOOSE i \in 1..Len(str) :
         str[i] = "-" /\ \A j \in 1..(i - 1) : str[j] # "-"
  ELSE 0

\* The file server of the test reading "bytes=first-last": the range it
\* serves, ok = FALSE when the header does not name a range of the file
ParseRange(h) ==
  LET spec  == SubSeq(h, 7, Len(h))
      first == ParseNat(SubSeq(spec, 1, Dash(spec) - 1))
      last  == ParseNat(SubSeq(spec, Dash(spec) + 1, Len(spec)))
  IN IF Len(h) < 7 \/ SubSeq(h, 1, 6) # <<"b", "y", "t", "e", "s", "=">>
        \/ Dash(spec) = 0 \/ first < 0 \/ last < 0 \/ first > last
        \/ first >= size
     THEN [ok |-> FALSE, first |-> 0, last |-> 0]
     ELSE [ok |-> TRUE, first |-> first, last |-> Min(last, size - 1)]

\* The ways a server answers the requests for a URI: as the file server of
\* the test does; with the whole file and 200; with a status and a Location
\* (loc = 0: no Location header, loc = -1: one that url.Parse rejects); or
\* not at all (status 0: RoundTrip returns an error)
Answers ==
  {[kind |-> "file", status |-> 206, loc |-> 0],
   [kind |-> "whole", status |-> 200, loc |-> 0],
   [kind |-> "none", status |-> 0, loc |-> 0]}
  \cup {[kind |-> "status", status |-> 302, loc |-> l] : l \in URIs \cup {0, -1}}
  \cup {[kind |-> "status", status |-> 201, loc |-> 1],
        [kind |-> "status", status |-> 404, loc |-> 0]}

\* rt.RoundTrip(req) for the URI answered in the way a: the status, the
\* Location and the body of the response
RoundTrip(a, h) ==
  CASE a.kind = "file" ->
         IF ParseRange(h).ok
         THEN [status |-> 206, loc |-> 0,
               body |-> Slice(Z, ParseRange(h).first, ParseRange(h).last + 1)]
         ELSE [status |-> 416, loc |-> 0, body |-> <<>>]
    [] a.kind = "whole" -> [status |-> 200, loc |-> 0, body |-> Z]
    [] OTHER -> [status |-> a.status, loc |-> a.loc, body |-> <<>>]

\* io.ReadFull(res.Body, p) with len(p) = n
ioReadFull(body, n) ==
  [buf |-> Slice(body, 0, Min(n, Len(body))),
   err |-> IF Len(body) >= n THEN "nil"
           ELSE IF body = <<>> THEN "EOF" ELSE "ErrUnexpectedEOF"]

\* f.ReadAt(b, start) of the os.File, len(b) = n
osReadAt(off, n) ==
  [buf |-> Slice(Z, Min(off, size), Min(off + n, size)),
   err |-> IF off + n <= size THEN "nil" ELSE "EOF"]

\* New(ctx, uri, rt): no ReadAt has been called yet
RangerNew(srv, uri) ==
  [on |-> TRUE, srv |-> srv, uri |-> uri, pc |-> "idle", off |-> 0, len |-> 0,
   redirects |-> 0, status |-> 0, loc |-> 0, buf |-> <<>>, err |-> "nil"]

RangerInit ==
  /\ blob \in 1..Len(Blobs)
  /\ \E srv \in [URIs -> Answers] : rg = RangerNew(srv, 1)
  /\ dec = <<>> /\ readers = <<>> /\ updates = <<>>
  /\ checkpoints = <<>> /\ decoded = FALSE
  /\ call = [p \in Procs |-> Idle] /\ ncalls = 0
  /\ arch = 0 /\ fsys = NoFS /\ restored = FALSE /\ op = NoOp
  /\ file = NoFile /\ fl = NoFlate
  /\ hp = NoHeap /\ hf = NoHuff /\ pb = NoPub /\ ch = NoChan /\ nz = NoNorm /\ ac = NoAcct /\ sr = NoSect

\* the caller calls r.ReadAt(p, off) with len(p) = n
RangerReadAt(off, n) ==
  /\ rg.on /\ rg.pc \in {"idle", "done"}
  /\ rg' = [rg EXCEPT !.pc = "request", !.off = off, !.len = n,
                      !.redirects = 0, !.status = 0, !.loc = 0,
                      !.buf = <<>>, !.err = "nil"]
  /\ UNCHANGED <<gsipVars, tarVars, fl, hp, hf, pb, ch, nz, ac, sr>>

\* One call of ReadAt, the caller's or the one ReadAt makes of itself: the
\* request, the response and what ReadAt does with it.  redirects counts the
\* calls ReadAt made of itself, up to MaxRedirects.
Request(r) ==
  Bind(RoundTrip(r.srv[r.uri], RangeHeader(r.off, r.len)), LAMBDA res :
    IF res.status = 0
    THEN [r EXCEPT !.pc = "done", !.err = "RoundTrip"]
    ELSE IF res.status = 206
    THEN [r EXCEPT !.pc = "done", !.status = res.status, !.loc = res.loc,
                   !.buf = ioReadFull(res.body, r.len).buf,
                   !.err = ioReadFull(res.body, r.len).err]
    ELSE IF res.loc = 0 \/ res.status \div 100 # 3
    THEN [r EXCEPT !.pc = "done", !.status = res.status, !.loc = res.loc,
                   !.err = "NoRange"]
    ELSE IF res.loc = -1
    THEN [r EXCEPT !.pc = "done", !.status = res.status, !.loc = res.loc,
                   !.err = "Parse"]
    ELSE [r EXCEPT !.uri = res.loc, !.status = res.status, !.loc = res.loc,
                   !.redirects = Min(r.redirects + 1, MaxRedirects)])

DoRequest ==
  /\ rg.on /\ rg.pc = "request"
  /\ rg' = Request(rg)
  /\ UNCHANGED <<gsipVars, tarVars, fl, hp, hf, pb, ch, nz, ac, sr>>

RangerNext ==
  \/ \E off \in Offsets, n \in 0..MaxLen : RangerReadAt(off, n)
  \/ DoRequest

SpecRanger == RangerInit /\ [][RangerNext]_vars

(***************************************************************************)
(* Properties of Part I                                                    *)
(***************************************************************************)
Done(p) == call[p].pc = "done"

\* the bytes of gunzip(A)[o:o+n], cut at the end of the stream
Want(off, n) == Slice(Plain, Min(off, Len(Plain)), Min(off + n, Len(Plain)))

InStream(p) == call[p].off + call[p].len <= Len(Plain)

NoDynamicBlock == \A id \in DOMAIN dec : dec[id].err # "Dynamic"

\* no other goroutine has called ReadAt on this reader: the calls of p ran
\* one after the other
Sole(p) == \A q \in Procs \ {p} : call[q].pc = "idle"

Correct(p) ==
  call[p].buf = Want(call[p].off, call[p].len) /\ call[p].err = "nil"

\* C1: Round-trip equivalence: a ReadAt(o, n) within the uncompressed stream
\* returns exactly gunzip(A)[o:o+n], whatever ReadAt calls were made on the
\* same reader before (here: calls of one goroutine, one after the other).
C1_RoundTrip ==
  \A p \in Procs :
    Done(p) /\ Sole(p) /\ ~decoded /\ InStream(p) => Correct(p)

\* what a decoder continued from ck reads up to the end of the stream
ResumedSuffix(ck) ==
  ReadFull(gzipContinue(ck), Len(Plain) - ck.Out + 1, <<>>, <<>>)

\* C2: Checkpoint soundness: for every checkpoint that finishBlock sent, a
\* decoder continued from it over the compressed bytes from ck.In produces
\* exactly the suffix of the uncompressed stream that starts at ck.Out, and
\* then the end of the stream.
C2_CheckpointSound ==
  \A i \in 1..Len(checkpoints) :
    ~checkpoints[i].Empty =>
      LET r == ResumedSuffix(checkpoints[i])
      IN /\ r.buf = Slice(Plain, checkpoints[i].Out, Len(Plain))
         /\ r.err \in {"EOF", "ErrUnexpectedEOF"}

\* the data sections (offset, size) of the members of the archive in the
\* uncompressed stream, per blob
Members ==
  << { [off |-> 1, size |-> 2], [off |-> 3, size |-> 1], [off |-> 5, size |-> 2] },
     { [off |-> 1, size |-> 1] } >>

\* ReadAt of the plain file: os.File.ReadAt over gunzip(A)
FileReadAt(off, n) == Slice(Plain, off, off + n)

\* C3: Path equivalence: streaming a member (its section of the archive)
\* over the Gsip reader yields the bytes that streaming it over the plain
\* file yields, with no error.
C3_PathEquivalence ==
  \A p \in Procs :
    /\ Done(p) /\ Sole(p) /\ ~decoded
    /\ [off |-> call[p].off, size |-> call[p].len] \in Members[blob]
    => call[p].buf = FileReadAt(call[p].off, call[p].len) /\ call[p].err = "nil"

\* C4: Concurrent ReadAt calls are independent: no call fails because another
\* call in flight holds the decoder that would have served it.
C4_Independent ==
  \A p \in Procs : Done(p) => ~call[p].starved

\* C5: Gsip sidecar round trip: on a reader made by Decode from the output of
\* Encode (taken after the frontier pass), every ReadAt(o, n) within the
\* stream returns gunzip(A)[o:o+n].
C5_SidecarRoundTrip ==
  \A p \in Procs :
    Done(p) /\ Sole(p) /\ decoded /\ InStream(p) => Correct(p)

\* C7: Checkpoint order: the checkpoints of the reader are strictly
\* increasing in Out and weakly increasing in In.
C7_CheckpointOrder ==
  \A i, j \in 1..Len(checkpoints) :
    i < j => /\ checkpoints[i].Out < checkpoints[j].Out
             /\ checkpoints[i].In <= checkpoints[j].In

\* the first call on a newly made reader, with no other call around it
First(p) == Done(p) /\ call[p].nth = 1 /\ Sole(p) /\ ~decoded

Full(p) == Len(call[p].buf) = call[p].len /\ call[p].err = "nil"

C9_BeforeCheckpoints ==
  \A p \in Procs :
    Done(p) /\ Sole(p) /\ ~decoded /\ call[p].nockpt /\ InStream(p)
      => Correct(p)
(***************************************************************************)
(* Properties of Part II                                                   *)
(***************************************************************************)
\* Resolution of a name one element at a time, as a file system does it:
\* cur is the directory reached, rest the elements still to go.  A symlink
\* met on the way is replaced by its target, taken from the root if it is
\* absolute and from the directory the link is in if it is not.
WalkStep(fs, w) ==
  LET c    == Head(w.rest)
      cand == Append(w.cur, c)
      e    == Entry(fs, Glue(cand))
      link == fs.files[e].Header.Linkname
  IN IF c = Dot THEN [w EXCEPT !.rest = Tail(w.rest)]
     ELSE IF c = DotDot
     THEN [w EXCEPT !.cur = SubSeq(w.cur, 1, Len(w.cur) - 1),
                    !.rest = Tail(w.rest)]
     ELSE IF e # 0 /\ fs.files[e].Header.Typeflag = TypeSymlink
     THEN [cur  |-> IF IsAbs(link) THEN <<>> ELSE w.cur,
           rest |-> Elements(link) \o Tail(w.rest),
           left |-> w.left - 1]
     ELSE [w EXCEPT !.cur = cand, !.rest = Tail(w.rest)]

\* left: the links that may still be followed before the walk gives up
RECURSIVE Walk(_, _)
Walk(fs, w) ==
  IF w.rest # <<>> /\ w.left > 0 THEN Walk(fs, WalkStep(fs, w)) ELSE w

\* the place in files of the entry that name leads to, 0 if it leads to none
Target(fs, name) ==
  LET w == Walk(fs, [cur |-> <<>>, rest |-> Elements(name),
                      left |-> Len(fs.files) + Len(name)])
      e == IF w.rest = <<>> THEN Entry(fs, Glue(w.cur)) ELSE 0
  IN IF e # 0 /\ fs.files[e].Header.Typeflag = TypeLink
     THEN Entry(fs, normalize(fs.files[e].Header.Linkname))
     ELSE e

\* the FS that New makes of the archive
Original == New(Archives[arch])

\* the call o made on fs
Apply(fs, o) ==
  CASE o.name = "Open"     -> Open(fs, o.arg)
    [] o.name = "Stat"     -> Stat(fs, o.arg)
    [] o.name = "ReadDir"  -> ReadDir(fs, o.arg)
    [] o.name = "Readlink" -> Readlink(fs, o.arg)
    [] OTHER               -> o.res

\* C6: TarFS sidecar round trip: an FS made by Decode from the output of
\* Encode answers Open, Stat, ReadDir and Readlink as the original FS does
\* for every path, and the fields of every entry (name, parent directory,
\* type, link target, offset, size) and the directory index are those of
\* the original.
C6_TOCRoundTrip ==
  restored =>
    /\ fsys.files = Original.files
    /\ \A name \in Names : ReadDir(fsys, name) = ReadDir(Original, name)
    /\ op.name # "none" => op.res = Apply(Original, op)

\* C10: Open resolves symlinks at the final element of the name and at its
\* ancestor directories: when the name leads, link by link, to a regular
\* file, Open returns without error a File that reads the bytes of that
\* file (its section of the archive).
C10_OpenResolvesLinks ==
  op.name = "Open" /\ ~restored =>
    LET t == Target(fsys, op.arg)
    IN t # 0 /\ fsys.files[t].Header.Typeflag = TypeReg =>
         /\ op.res.err = "nil"
         /\ op.res.Offset = fsys.files[t].Offset
         /\ op.res.Size = fsys.files[t].Header.Size

\* weird/relative/binary, a relative link to a path through the absolute
\* link weird/linked, has been opened as usr/bin/binary
C10_Witness ==
  /\ op.name = "Open" /\ ~restored /\ arch = 1
  /\ op.arg = <<"w", "/", "r", "/", "f">>
  /\ op.res.err = "nil"
  /\ op.res.Filename = <<"u", "/", "b", "/", "f">>
  /\ Target(fsys, op.arg) = Entry(fsys, op.res.Filename)

\* name leads into a link cycle: resolved one element at a time, more links
\* are met than the archive has entries and the name has characters
OnCycle(fs, name) ==
  LET w == Walk(fs, [cur |-> <<>>, rest |-> Elements(name),
                      left |-> Len(fs.files) + Len(name)])
  IN w.left = 0 /\ w.rest # <<>>

\* C11 as stated: Open of a name on a link cycle (at its final element or at
\* a symlinked ancestor directory) ends with TooManySymlinks within 256
\* calls of open.
C11_Within256Calls ==
  op.name = "Open" /\ ~restored /\ OnCycle(fsys, op.arg) =>
    LET r == open(fsys, op.arg, 0)
    IN r.done /\ r.err = "TooManySymlinks" /\ r.calls <= maxHops + 1

\* C11 as amended: every Open ends within maxHops + 2 = 257 calls of open;
\* one that ends with TooManySymlinks has made exactly 257, the last with
\* hops = maxHops + 1 = 256; and Open of a name on a link cycle ends with
\* TooManySymlinks.
C11_CycleEnds ==
  op.name = "Open" /\ op.arg # Dot =>
    LET r == open(fsys, op.arg, 0)
    IN /\ r.done /\ r.calls <= maxHops + 2
       /\ r.err = "TooManySymlinks" <=> r.calls = maxHops + 2
       /\ r.err = "TooManySymlinks" => r.hops = maxHops + 1
       /\ op.res.err = r.err
       /\ ~restored /\ OnCycle(fsys, op.arg) => r.err = "TooManySymlinks"

\* p/f, below the link p of the cycle p -> q -> /p, has been opened
C11_Witness ==
  /\ op.name = "Open" /\ ~restored /\ arch = 3
  /\ op.arg = <<"p", "/", "f">>
  /\ OnCycle(fsys, op.arg)
  /\ op.res.err = "TooManySymlinks"

\* C12: For every directory, ReadDir returns the children sorted by the
\* final element of their path and with no duplicates: every entry has a
\* name less than the name of the entry after it.
C12_ReadDirSortedNoDups ==
  op.name = "ReadDir" /\ ~restored =>
    \A i, j \in 1..Len(op.res) :
      i < j => StrLess(op.res[i].fi.name, op.res[j].fi.name)
\* the read_dir list of the directory the File was opened on
Listing == ReadDir(fsys, file.Filename)

\* C13: on a directory handle a File.ReadDir(n) with n > 0 returns at most n
\* entries, the ones of the read_dir list that follow those returned before,
\* so that what the calls returned so far is a prefix of the list; it moves
\* on by n entries or to the end of the list, and it returns EOF exactly when
\* the list was exhausted before the call, every entry having been returned
C13_Pagination ==
  op.name = "File.ReadDir" /\ op.arg > 0 =>
    /\ Len(op.res.entries) <= op.arg
    /\ op.res.entries = Slice(Listing, op.before, file.cursor)
    /\ file.got = Slice(Listing, 0, file.cursor)
    /\ file.cursor = Min(op.before + op.arg, Len(Listing))
    /\ op.res.err = "EOF" <=> op.before >= Len(Listing)
    /\ op.res.err = "EOF" => op.res.entries = <<>> /\ file.got = Listing
    /\ op.res.err # "EOF" => op.res.err = "nil" /\ op.res.entries # <<>>

\* a directory of three children was read by ReadDir(2) twice, two entries
\* and then one, and the third ReadDir(2) returned EOF
C13_Witness ==
  /\ op.name = "File.ReadDir" /\ op.arg = 2 /\ op.res.err = "EOF"
  /\ file.ns = <<2, 2>>
  /\ Len(Listing) = 3 /\ file.got = Listing

\* C14: File.ReadDir(n) with n <= 0, zero as well as negative, returns all
\* the entries after the cursor and leaves the cursor at the end of the list
C14_NonPositiveReadsRest ==
  op.name = "File.ReadDir" /\ op.arg <= 0 =>
    /\ op.res.err = "nil"
    /\ op.res.entries = Slice(Listing, op.before, Len(Listing))
    /\ file.cursor = Len(Listing)

\* C15: Open(".") and Stat(".") succeed and report a directory, whatever the
\* archive holds
C15_RootIsDir ==
  op.name \in {"Open", "Stat"} /\ op.arg = Dot =>
    op.res.err = "nil" /\ op.res.fi.type = TypeDir

\* C16: a Read that is called after a Read of the same decoder returned an
\* error returns that error and no bytes, and leaves the decoder as it was
C16_FailureLatch ==
  fl.on /\ fl.late =>
    /\ fl.rerr = fl.seen
    /\ fl.out = <<>>
    /\ fl.d.err = fl.seen /\ fl.d.toRead = <<>>

\* a decoder that was read to the end of a stream, after bytes were read
\* from it, and then read again
C16_Witness ==
  fl.on /\ fl.late /\ fl.seen = "EOF" /\ fl.d.woffset > 0

\* C17: a ReadAt follows at most one redirect; it fails when the response
\* is neither 206 nor a 3xx with a Location; and so it is over after two
\* requests at most, whatever the server answers
C17_OneRedirectPerRead ==
  rg.on =>
    /\ rg.redirects <= 1
    /\ rg.pc = "done" /\ rg.status # 206
         /\ (rg.status \div 100 # 3 \/ rg.loc = 0) => rg.err # "nil"

\* C18: a ReadAt of the range client with start and length > 0 within the
\* file, on a server that serves the file (directly or behind redirects),
\* returns the bytes, and so the count, and the error that ReadAt of the
\* file itself returns
C18_SameAsFile ==
  /\ rg.on /\ rg.pc = "done" /\ rg.srv[rg.uri].kind = "file"
  /\ rg.len > 0 /\ rg.off + rg.len <= size
  => /\ rg.buf = osReadAt(rg.off, rg.len).buf
     /\ rg.err = osReadAt(rg.off, rg.len).err

\* a read of two bytes at an offset of two digits, served after a redirect
C18_Witness ==
  /\ rg.on /\ rg.pc = "done" /\ rg.srv[rg.uri].kind = "file"
  /\ rg.len = 2 /\ rg.off >= 10 /\ rg.off + rg.len <= size
  /\ rg.redirects = 1 /\ rg.err = "nil" /\ Len(rg.buf) = 2

\* the call of p holds a decoder: it discards or reads, or has read and its
\* deferred function has not run yet
InUse(p) == call[p].pc \in {"discard", "read", "release"}

\* C19: no decoder is held by two calls at the same time, and a decoder of
\* the pool that a call holds is marked busy; a decoder of the pool is handed
\* to a call only when it is marked free, and is marked busy by the same step
C19_MutualExclusion ==
  /\ [](\A p \in Procs : InUse(p) =>
         /\ \A q \in Procs \ {p} : InUse(q) => call[q].zr # call[p].zr
         /\ call[p].zr \in DOMAIN readers => ~readers[call[p].zr])
  /\ [][\A p \in Procs :
          ~InUse(p) /\ InUse(p)' /\ call'[p].zr \in DOMAIN readers
            => readers[call'[p].zr] /\ ~readers'[call'[p].zr]]_vars

\* two calls hold a decoder of the pool each, one of them the frontier
C19_Witness ==
  \E p, q \in Procs :
    /\ p # q /\ InUse(p) /\ InUse(q)
    /\ call[p].zr = Frontier /\ call[q].zr \in DOMAIN readers

\* C20: the decoder of a call is not available to other calls while the
\* call holds it, and once the call is over the decoder, if it is in the
\* pool and no later call holds it, is marked free again
C20_BusyThenFreed ==
  \A p \in Procs :
    /\ InUse(p) /\ call[p].zr \in DOMAIN readers => ~readers[call[p].zr]
    /\ Done(p) /\ call[p].zr \in DOMAIN readers
         /\ (\A q \in Procs : InUse(q) => call[q].zr # call[p].zr)
         => readers[call[p].zr]

\* the call of p is over and the last operation on its decoder, the discard
\* or the read, returned an error
Failed(p) == Done(p) /\ call[p].zr # 0 /\ call[p].err # "nil"

\* C21: the decoder of a call that failed is not in the pool as an idle
\* decoder, and no later call holds it
C21_FailedDecoderRemoved ==
  \A p \in Procs : Failed(p) =>
    /\ call[p].zr \in DOMAIN readers => ~readers[call[p].zr]
    /\ \A q \in Procs : InUse(q) => call[q].zr # call[p].zr

\* C22: a ReadAt(p, off) that begins while an available decoder of the pool
\* stands at off takes such a decoder and goes on to read from it at once:
\* nothing is discarded, no decoder is made and the pool stays as large as
\* it was; a call that took its decoder this way never discards
C22_ReusePreferred ==
  /\ [][\A p \in Procs :
          /\ ~InCall(p) /\ InCall(p)'
          /\ \E id \in DOMAIN readers :
                readers[id] /\ Offset(dec[id]) = call'[p].off
          => /\ call'[p].pc = "read" /\ call'[p].path = "exact"
             /\ call'[p].zr \in DOMAIN readers
             /\ readers[call'[p].zr]
             /\ Offset(dec[call'[p].zr]) = call'[p].off
             /\ dec' = dec
             /\ DOMAIN readers' = DOMAIN readers]_vars
  /\ [](\A p \in Procs : call[p].path = "exact" =>
          call[p].pc \in {"read", "release", "done"} /\ call[p].rem = 0)

\* a call reads from a decoder it found at its offset, behind the start of
\* the stream, where an earlier call had left it
C22_Witness ==
  \E p \in Procs :
    call[p].path = "exact" /\ call[p].pc = "read" /\ call[p].off > 0

\* the offset in the uncompressed stream of the next byte a Read of the
\* decoder returns: the bytes decoded less those still held in toRead
Delivered(d) == d.woffset - Len(d.toRead)

\* C23: a call that found no decoder at off and then finds a checkpoint
\* with Out <= off continues a new decoder from a checkpoint whose Out is the
\* highest that is <= off: the decoder stands at that checkpoint's In and
\* Out, and off - Out bytes are to be discarded.  When the discard is through
\* the decoder has returned that many bytes, the next byte it returns is the
\* one at off, and the read follows.
C23_ResumeFromHighest ==
  /\ [][\A p \in Procs :
          call[p].pc = "scan" /\ call'[p].pc # "scan"
          /\ (\E i \in 1..Len(checkpoints) : checkpoints[i].Out <= call[p].off)
          => /\ call'[p].pc = "discard" /\ call'[p].path = "resume"
             /\ call'[p].from \in 1..Len(checkpoints)
             /\ checkpoints[call'[p].from].Out <= call[p].off
             /\ \A i \in 1..Len(checkpoints) :
                  checkpoints[i].Out <= call[p].off
                    => checkpoints[i].Out <= checkpoints[call'[p].from].Out
             /\ call'[p].zr \notin DOMAIN dec
             /\ dec'[call'[p].zr].roffset = checkpoints[call'[p].from].In
             /\ Offset(dec'[call'[p].zr]) = checkpoints[call'[p].from].Out
             /\ call'[p].rem = call[p].off - checkpoints[call'[p].from].Out]_vars
  /\ [][\A p \in Procs :
          call[p].pc = "discard" /\ call[p].path = "resume"
          /\ call'[p].pc = "read"
          => /\ Delivered(dec'[call[p].zr]) = call[p].off
             /\ Delivered(dec'[call[p].zr]) - Delivered(dec[call[p].zr])
                  = call[p].rem]_vars

\* a call continued a decoder from a checkpoint that is not the first, with
\* checkpoints behind it that lie after the offset, discarded some bytes and
\* is about to read
C23_Witness ==
  \E p \in Procs :
    /\ call[p].pc = "read" /\ call[p].path = "resume"
    /\ call[p].from > 1 /\ call[p].from < Len(checkpoints)
    /\ checkpoints[call[p].from].Out < call[p].off
    /\ checkpoints[Len(checkpoints)].Out > call[p].off

\* C24: a call fails with NoCheckpoint only when, as it fails, no available
\* decoder stands at or before its offset and no checkpoint has Out <= off;
\* and the step in which it fails leaves the pool as it is
C24_NoCheckpointOnlyIfNothingServes ==
  [][\A p \in Procs :
       call[p].pc = "fallback" /\ call'[p].err = "NoCheckpoint"
       => /\ \A id \in DOMAIN readers :
               readers[id] => Offset(dec[id]) > call[p].off
          /\ \A i \in 1..Len(checkpoints) : checkpoints[i].Out > call[p].off
          /\ readers' = readers /\ dec' = dec]_vars

\* C25: a call whose offset lies ahead of every decoder of the pool, the
\* frontier being available, is served by the frontier: the decoder it sets
\* out to discard with is the frontier, which sends the checkpoints of the
\* region it passes
C25_FrontierPulled ==
  [][\A p \in Procs :
       /\ call[p].pc # "discard" /\ call'[p].pc = "discard"
       /\ Frontier \in DOMAIN readers /\ readers[Frontier]
       /\ \A id \in DOMAIN readers : Offset(dec[id]) < call'[p].off
       => call'[p].zr = Frontier /\ dec[Frontier].updates]_vars

\* the next Read of the decoder calls f.step
StepsNext(d) == d.toRead = <<>> /\ d.err = "nil" /\ d.zerr = "nil"

\* the step that led to d1 ended in finishBlock: a block ended
AtBoundary(d1) == d1.step = "nextBlock" /\ d1.err \in {"nil", "EOF"}

\* the uncompressed position finishBlock saw when d stepped to d1: woffset,
\* and behind the final block the bytes flushed as well
BoundaryOut(d, d1) ==
  d.woffset + (IF d1.err = "EOF" THEN Len(d1.toRead) ELSE 0)

\* Out of the checkpoint the frontier sent last
LastOut ==
  IF updates # <<>> THEN updates[Len(updates)].Out
  ELSE IF checkpoints # <<>> THEN checkpoints[Len(checkpoints)].Out
  ELSE 0

\* C26: at the end of a block the frontier, which has the channel, sends a
\* checkpoint exactly when the uncompressed position has advanced by at
\* least span bytes since the checkpoint sent last
C26_EmitsAtSpan ==
  Frontier \in DOMAIN dec /\ dec[Frontier].updates /\ StepsNext(dec[Frontier])
  => Bind(step(dec[Frontier]), LAMBDA d1 :
       AtBoundary(d1) =>
         (d1.emit # <<>>
            <=> BoundaryOut(dec[Frontier], d1) - LastOut >= dec[Frontier].span))


(***************************************************************************)
(* Part V.  The history buffers as memory.  A Go slice is a reference: a   *)
(* checkpoint and a decoder may share one array.  hp.bufs is the arrays,   *)
(* hp.dec the decoders (1 is the frontier), hp.cks the checkpoints sent,   *)
(* each holding the number of its array, and hp.pub what each checkpoint   *)
(* held when it was sent.                                                  *)
(***************************************************************************)
HistBytes == {1}
MaxDecs   == NumProcs
MaxCks    == MaxLen

\* make([]byte, n) followed by copy(dst, src): a new array with src's bytes
makeCopy(bufs, src) == Append(bufs, bufs[src])

\* the checkpoint would share the decoder's array
finishBlockMem_Alias(h, i) ==
  LET d  == h.dec[i]
      ck == [Hist |-> d.hist, Out |-> d.woffset,
             WrPos |-> d.wrPos, RdPos |-> d.rdPos, Full |-> d.full]
  IN [h EXCEPT !.cks = Append(@, ck),
               !.pub = Append(@, [ck EXCEPT !.Hist = h.bufs[d.hist]])]

\* finishBlock's checkpoint: Hist is a new array with a copy of f.dict.hist
finishBlockMem(h, i) ==
  LET d  == h.dec[i]
      ck == [Hist |-> Len(h.bufs) + 1, Out |-> d.woffset,
             WrPos |-> d.wrPos, RdPos |-> d.rdPos, Full |-> d.full]
  IN [h EXCEPT !.bufs = makeCopy(@, d.hist),
               !.cks  = Append(@, ck),
               !.pub  = Append(@, [ck EXCEPT !.Hist = h.bufs[d.hist]])]

\* Continue: f.dict.hist is a new array with a copy of from.Hist
ContinueMem(h, k) ==
  LET from == h.cks[k]
  IN [h EXCEPT !.bufs = makeCopy(@, from.Hist),
               !.dec  = Append(@, [hist |-> Len(h.bufs) + 1, from |-> k,
                                   wrPos |-> from.WrPos, rdPos |-> from.RdPos,
                                   full |-> from.Full, woffset |-> from.Out])]

\* dictDecoder.writeByte on decoder i's array
writeByteMem(h, i, c) ==
  LET d == h.dec[i]
  IN [h EXCEPT !.bufs[d.hist][d.wrPos + 1] = c,
               !.dec[i].wrPos = d.wrPos + 1]

\* dictDecoder.readFlush on decoder i, and Read's woffset += len(toRead)
readFlushMem(h, i) ==
  LET d == h.dec[i]
      n == d.wrPos - d.rdPos
  IN IF d.wrPos = Len(h.bufs[d.hist])
     THEN [h EXCEPT !.dec[i].wrPos = 0, !.dec[i].rdPos = 0,
                    !.dec[i].full = TRUE, !.dec[i].woffset = @ + n]
     ELSE [h EXCEPT !.dec[i].rdPos = d.wrPos, !.dec[i].woffset = @ + n]

\* NewReaderWithSpans: the frontier with an empty window
HistInit ==
  /\ hp = [on |-> TRUE, bufs |-> <<Zeros(WindowSize)>>,
           dec |-> <<[hist |-> 1, from |-> 0, wrPos |-> 0, rdPos |-> 0,
                      full |-> FALSE, woffset |-> 0]>>,
           cks |-> <<>>, pub |-> <<>>]
  /\ blob = 1 /\ dec = <<>> /\ readers = <<>> /\ updates = <<>>
  /\ checkpoints = <<>> /\ decoded = FALSE
  /\ call = [p \in Procs |-> Idle] /\ ncalls = 0
  /\ arch = 0 /\ fsys = NoFS /\ restored = FALSE /\ op = NoOp
  /\ file = NoFile /\ fl = NoFlate /\ rg = NoRanger
  /\ hf = NoHuff /\ pb = NoPub /\ ch = NoChan /\ nz = NoNorm /\ ac = NoAcct /\ sr = NoSect

HistWrite(i, c) ==
  /\ hp.dec[i].wrPos < WindowSize
  /\ hp.dec[i].woffset + (hp.dec[i].wrPos - hp.dec[i].rdPos) < WindowSize + 1
  /\ hp' = writeByteMem(hp, i, c)
  /\ UNCHANGED <<gsipVars, tarVars, fl, rg, hf, pb, ch, nz, ac, sr>>

HistFlush(i) ==
  /\ hp.dec[i].wrPos > hp.dec[i].rdPos
  /\ hp' = readFlushMem(hp, i)
  /\ UNCHANGED <<gsipVars, tarVars, fl, rg, hf, pb, ch, nz, ac, sr>>

\* the frontier, the one decoder with an updates channel, ends a block
HistFinishBlock ==
  /\ Len(hp.cks) < MaxCks
  /\ hp' = finishBlockMem(hp, 1)
  /\ UNCHANGED <<gsipVars, tarVars, fl, rg, hf, pb, ch, nz, ac, sr>>

HistContinue(k) ==
  /\ Len(hp.dec) < MaxDecs
  /\ hp' = ContinueMem(hp, k)
  /\ UNCHANGED <<gsipVars, tarVars, fl, rg, hf, pb, ch, nz, ac, sr>>

HistNext ==
  \/ \E i \in 1..Len(hp.dec), c \in HistBytes : HistWrite(i, c)
  \/ \E i \in 1..Len(hp.dec) : HistFlush(i)
  \/ HistFinishBlock
  \/ \E k \in 1..Len(hp.cks) : HistContinue(k)

SpecHist == HistInit /\ [][HistNext]_vars

\* what checkpoint k holds now, its array read through the reference
Held(k) == [hp.cks[k] EXCEPT !.Hist = hp.bufs[hp.cks[k].Hist]]

\* C27: a published checkpoint holds, whatever the frontier and the
\* decoders resumed from it decode and write afterwards, the same fields
\* and the same history bytes as when it was published.
C27_CheckpointsImmutable ==
  hp.on => \A k \in 1..Len(hp.cks) : Held(k) = hp.pub[k]

\* a checkpoint was published, and since then both the frontier and a
\* decoder resumed from it have written over their windows
C27_Witness ==
  /\ hp.on
  /\ \E k \in 1..Len(hp.cks) :
       /\ hp.bufs[hp.dec[1].hist] # hp.pub[k].Hist
       /\ \E j \in 2..Len(hp.dec) :
            hp.dec[j].from = k /\ hp.bufs[hp.dec[j].hist] # hp.pub[k].Hist


(***************************************************************************)
(* Part VI.  r.checkpoints as memory.  The goroutine of NewReader appends  *)
(* to the slice and acquireReader ranges over it, neither holding r.mu.    *)
(* A slice is three words (array, len, cap) stored and loaded one by one;  *)
(* append stores into the array when len < cap and else copies it into a   *)
(* new one.  Checkpoints are numbered in the order they were sent; Junk    *)
(* is what a load from outside an array yields.                            *)
(***************************************************************************)
Junk     == 0 - 1
Zerobase == 0
Words    == {"array", "len"}

\* growslice for one more element: 0, 1, 2, 4, ...
growCap(cap) == IF cap = 0 THEN 1 ELSE 2 * cap

\* the element i (from 0) of a slice with array a, as a load finds it
loadElem(mem, a, i) ==
  IF a = Zerobase \/ i >= Len(mem[a]) THEN Junk ELSE mem[a][i + 1]

\* the elements a range over the slice (a, n) goes through
rangeOver(mem, a, n) == [i \in 1..n |-> loadElem(mem, a, i - 1)]

IsPrefix(s, t) == Len(s) <= Len(t) /\ \A i \in 1..Len(s) : s[i] = t[i]

\* checkpoints: []*flate.Checkpoint{}, the goroutine waiting on the channel
PubInit ==
  /\ pb = [on |-> TRUE, mem |-> <<>>,
           array |-> Zerobase, len |-> 0, cap |-> 0,
           sent |-> 0,
           w |-> [pc |-> "recv", array |-> Zerobase, len |-> 0, todo |-> {}],
           r |-> [pc |-> "idle", array |-> Zerobase, len |-> 0, todo |-> {},
                  seen |-> <<>>]]
  /\ blob = 1 /\ dec = <<>> /\ readers = <<>> /\ updates = <<>>
  /\ checkpoints = <<>> /\ decoded = FALSE
  /\ call = [p \in Procs |-> Idle] /\ ncalls = 0
  /\ arch = 0 /\ fsys = NoFS /\ restored = FALSE /\ op = NoOp
  /\ file = NoFile /\ fl = NoFlate /\ rg = NoRanger
  /\ hp = NoHeap /\ hf = NoHuff /\ ch = NoChan /\ nz = NoNorm /\ ac = NoAcct /\ sr = NoSect

\* checkpoint := <-updates, then append's element: in place if there is
\* room, else into a copy of the array with more room
PubAppend ==
  /\ pb.w.pc = "recv" /\ pb.sent < 2 * MaxCks
  /\ LET c    == pb.sent + 1
         grow == pb.len = pb.cap
         old  == IF pb.array = Zerobase THEN <<>> ELSE pb.mem[pb.array]
         new  == [i \in 1..growCap(pb.cap) |->
                    IF i <= pb.len THEN old[i]
                    ELSE IF i = pb.len + 1 THEN c ELSE Junk]
     IN pb' = [pb EXCEPT
                 !.sent = c,
                 !.mem  = IF grow THEN Append(@, new)
                          ELSE [@ EXCEPT ![pb.array][pb.len + 1] = c],
                 !.cap  = IF grow THEN growCap(@) ELSE @,
                 !.w    = [pc |-> "store",
                           array |-> IF grow THEN Len(pb.mem) + 1 ELSE pb.array,
                           len |-> pb.len + 1,
                           todo |-> IF grow THEN Words ELSE {"len"}]]
  /\ UNCHANGED <<gsipVars, tarVars, fl, rg, hp, hf, ch, nz, ac, sr>>

\* r.checkpoints = ...: one word of the slice is stored
PubStore(word) ==
  /\ pb.w.pc = "store" /\ word \in pb.w.todo
  /\ pb' = [pb EXCEPT
              !.array  = IF word = "array" THEN pb.w.array ELSE @,
              !.len    = IF word = "len" THEN pb.w.len ELSE @,
              !.w.todo = @ \ {word},
              !.w.pc   = IF pb.w.todo = {word} THEN "recv" ELSE @]
  /\ UNCHANGED <<gsipVars, tarVars, fl, rg, hp, hf, ch, nz, ac, sr>>

\* acquireReader reaches 'range r.checkpoints'
PubRange ==
  /\ pb.r.pc \in {"idle", "seen"}
  /\ pb' = [pb EXCEPT !.r = [pc |-> "load", array |-> Zerobase, len |-> 0,
                             todo |-> Words, seen |-> <<>>]]
  /\ UNCHANGED <<gsipVars, tarVars, fl, rg, hp, hf, ch, nz, ac, sr>>

\* one word of the slice is loaded
PubLoad(word) ==
  /\ pb.r.pc = "load" /\ word \in pb.r.todo
  /\ pb' = [pb EXCEPT
              !.r.array = IF word = "array" THEN pb.array ELSE @,
              !.r.len   = IF word = "len" THEN pb.len ELSE @,
              !.r.todo  = @ \ {word},
              !.r.pc    = IF pb.r.todo = {word} THEN "loop" ELSE @]
  /\ UNCHANGED <<gsipVars, tarVars, fl, rg, hp, hf, ch, nz, ac, sr>>

\* the loop goes through the elements of what it loaded
PubLoop ==
  /\ pb.r.pc = "loop"
  /\ pb' = [pb EXCEPT !.r.pc = "seen",
                      !.r.seen = rangeOver(pb.mem, pb.r.array, pb.r.len)]
  /\ UNCHANGED <<gsipVars, tarVars, fl, rg, hp, hf, ch, nz, ac, sr>>

PubNext ==
  \/ PubAppend
  \/ \E word \in Words : PubStore(word)
  \/ PubRange
  \/ \E word \in Words : PubLoad(word)
  \/ PubLoop

SpecPub == PubInit /\ [][PubNext]_vars

\* the checkpoints sent so far, in the order they were sent
Published == [i \in 1..pb.sent |-> i]

\* C28: what a range over r.checkpoints goes through, while the goroutine
\* appends, is a prefix of the sequence of checkpoints published: no entry
\* out of order, torn or missing.
C28_ObservesPrefix ==
  pb.on /\ pb.r.pc = "seen" => IsPrefix(pb.r.seen, Published)


(***************************************************************************)
(* Part VII.  The channel of NewReader.  A Read of the frontier sends its  *)
(* checkpoints one by one while it decodes; nobody else sees the frontier  *)
(* meanwhile, so the Read is taken as one step that leaves its sends in    *)
(* ch.pending, and each send as a step of its own.  ch.sent is every       *)
(* checkpoint sent so far, in order.                                       *)
(***************************************************************************)
\* NewReader on the stream of many members
ChanInit ==
  /\ blob = Len(Streams)
  /\ dec = (Frontier :> gzipNewReader)
  /\ readers = (Frontier :> TRUE)
  /\ updates = <<MemberCheckpoint(gzipHeaderLen, 0)>>
  /\ checkpoints = <<>>
  /\ ch = [on |-> TRUE, pending |-> <<>>,
           sent |-> <<MemberCheckpoint(gzipHeaderLen, 0)>>]
  /\ decoded = FALSE
  /\ call = [p \in Procs |-> Idle] /\ ncalls = 0
  /\ arch = 0 /\ fsys = NoFS /\ restored = FALSE /\ op = NoOp
  /\ file = NoFile /\ fl = NoFlate /\ rg = NoRanger
  /\ hp = NoHeap /\ hf = NoHuff /\ pb = NoPub /\ nz = NoNorm /\ ac = NoAcct
  /\ sr = (Frontier :> NewSectionReader(0, size))

\* io.ReadFull(zr, p) on the frontier, len(p) = n
ChanRead(n) ==
  /\ ch.pending = <<>> /\ dec[Frontier].zerr = "nil"
  /\ LET r == ReadFull(dec[Frontier], n, <<>>, <<>>)
     IN /\ dec' = [dec EXCEPT ![Frontier] = r.d]
        /\ ch' = [ch EXCEPT !.pending = r.emit]
  /\ UNCHANGED <<blob, readers, updates, checkpoints, decoded, call, ncalls,
                 tarVars, fl, rg, hp, hf, pb, nz, ac, sr>>

\* f.updates <- checkpoint
ChanSend ==
  /\ ch.pending # <<>>
  /\ Send(<<Head(ch.pending)>>)
  /\ ch' = [ch EXCEPT !.pending = Tail(@), !.sent = Append(@, Head(ch.pending))]
  /\ UNCHANGED <<blob, dec, readers, checkpoints, decoded, call, ncalls,
                 tarVars, fl, rg, hp, hf, pb, nz, ac, sr>>

ChanNext ==
  \/ \E n \in 1..MaxLen : ChanRead(n)
  \/ ChanSend
  \/ Consume

SpecChan == ChanInit /\ [][ChanNext]_vars

\* C29: the channel never holds more than its capacity of checkpoints; no
\* checkpoint is sent in a step that starts with the channel full, the next
\* send comes after the goroutine took one out; and the checkpoints
\* appended, followed by those in the channel, are the checkpoints sent,
\* in the order they were sent.
C29_Backpressure ==
  /\ [](ch.on => /\ Len(updates) <= ChanCap
                 /\ checkpoints \o updates = ch.sent)
  /\ [][ch.on /\ Len(updates) = ChanCap => ch.sent' = ch.sent]_vars

\* the channel is full, a send of the frontier waits, and part of what was
\* sent has been appended already
C29_Witness ==
  /\ ch.on /\ Len(updates) = ChanCap
  /\ ch.pending # <<>> /\ checkpoints # <<>>


(***************************************************************************)
(* Part VIII.  huffmanDecoder.init: the table of a Huffman code made from  *)
(* its code lengths.  lengths[i] is the length of symbol i - 1.  The codes *)
(* here are no longer than huffmanChunkBits, so no link table is made.     *)
(***************************************************************************)
huffmanNumChunks  == Pow2(huffmanChunkBits)
huffmanValueShift == 4
sanity            == TRUE
NumSyms           == 2 * MaxLen
MaxBits           == MaxLen + 1

NewHuffmanDecoder == [min |-> 0, chunks |-> [off \in 0..(huffmanNumChunks - 1) |-> 0]]

\* count[n], min and max of the first loop
count(lengths, n) == Cardinality({i \in 1..Len(lengths) : lengths[i] = n})
Used(lengths)     == {lengths[i] : i \in 1..Len(lengths)} \ {0}
minOf(lengths)    == IF Used(lengths) = {} THEN 0
                     ELSE CHOOSE n \in Used(lengths) : \A m \in Used(lengths) : n <= m
maxOf(lengths)    == IF Used(lengths) = {} THEN 0
                     ELSE CHOOSE n \in Used(lengths) : \A m \in Used(lengths) : n >= m

\* code when the second loop has gone from min to i
RECURSIVE codeAfter(_, _)
codeAfter(lengths, i) ==
  IF i < minOf(lengths) THEN 0
  ELSE 2 * codeAfter(lengths, i - 1) + count(lengths, i)

\* nextcode[i] as the second loop leaves it
nextcodeOf(lengths) ==
  [i \in 1..maxOf(lengths) |->
     IF i < minOf(lengths) THEN 0 ELSE 2 * codeAfter(lengths, i - 1)]

\* the third loop from symbol i on: every symbol with a length takes the
\* next code of its length and fills the chunks its reversed code selects
RECURSIVE fillChunks(_, _, _, _)
fillChunks(lengths, nextcode, i, t) ==
  IF i > Len(lengths) \/ t.panic # "nil" THEN t
  ELSE IF lengths[i] = 0 THEN fillChunks(lengths, nextcode, i + 1, t)
  ELSE LET n       == lengths[i]
           chunk   == (i - 1) * Pow2(huffmanValueShift) + n
           reverse == Reverse(nextcode[n], n)
           offs    == {off \in DOMAIN t.chunks : off % Pow2(n) = reverse}
       IN IF sanity /\ \E off \in offs : t.chunks[off] # 0
          THEN [t EXCEPT !.panic = "impossible: overwriting existing chunk"]
          ELSE fillChunks(lengths, [nextcode EXCEPT ![n] = @ + 1], i + 1,
                 [t EXCEPT !.chunks = [off \in DOMAIN t.chunks |->
                                         IF off \in offs THEN chunk
                                         ELSE t.chunks[off]]])

\* h.init(lengths) on a decoder in its zero state: ok is what it returns,
\* panic the message it panics with when it does not return
init(lengths) ==
  LET min  == minOf(lengths)
      max  == maxOf(lengths)
      code == codeAfter(lengths, max)
      none == [ok |-> TRUE, panic |-> "nil", h |-> NewHuffmanDecoder]
  IN IF max = 0 THEN none
     ELSE IF code # Pow2(max) /\ ~(code = 1 /\ max = 1)
     THEN IF sanity THEN [none EXCEPT !.ok = FALSE, !.panic = "coding incomplete"]
          ELSE [none EXCEPT !.ok = FALSE]
     ELSE Bind(fillChunks(lengths, nextcodeOf(lengths), 1,
                          [chunks |-> NewHuffmanDecoder.chunks, panic |-> "nil"]),
               LAMBDA t :
                 IF t.panic # "nil"
                 THEN [none EXCEPT !.ok = FALSE, !.panic = t.panic]
                 ELSE IF sanity /\ \E off \in DOMAIN t.chunks :
                                     t.chunks[off] = 0 /\ ~(code = 1 /\ off % 2 = 1)
                 THEN [none EXCEPT !.ok = FALSE, !.panic = "impossible: missing chunk"]
                 ELSE [none EXCEPT !.h = [min |-> min, chunks |-> t.chunks]])

\* readHuffman has read the code lengths of a table
HuffInit ==
  /\ \E lengths \in [1..NumSyms -> 0..MaxBits] :
       hf = [on |-> TRUE, lengths |-> lengths, pc |-> "readHuffman",
             h |-> NewHuffmanDecoder, err |-> "nil", panic |-> "nil"]
  /\ blob = 1 /\ dec = <<>> /\ readers = <<>> /\ updates = <<>>
  /\ checkpoints = <<>> /\ decoded = FALSE
  /\ call = [p \in Procs |-> Idle] /\ ncalls = 0
  /\ arch = 0 /\ fsys = NoFS /\ restored = FALSE /\ op = NoOp
  /\ file = NoFile /\ fl = NoFlate /\ rg = NoRanger
  /\ hp = NoHeap /\ pb = NoPub /\ ch = NoChan /\ nz = NoNorm /\ ac = NoAcct /\ sr = NoSect

\* if !f.h1.init(lengths) { return CorruptInputError(f.roffset) }; a panic
\* leaves the function and, nothing recovering it, ends the program
HuffBuild ==
  /\ hf.pc = "readHuffman"
  /\ LET r == init(hf.lengths)
     IN hf' = [hf EXCEPT !.pc    = IF r.panic # "nil" THEN "aborted" ELSE "returned",
                         !.h     = r.h,
                         !.panic = r.panic,
                         !.err   = IF r.panic = "nil" /\ ~r.ok THEN "Corrupt" ELSE "nil"]
  /\ UNCHANGED <<gsipVars, tarVars, fl, rg, hp, pb, ch, nz, ac, sr>>

HuffNext == HuffBuild

SpecHuff == HuffInit /\ [][HuffNext]_vars

\* the sum of 2^(-len) over the symbols with a length, times 2^MaxBits
Kraft(lengths) ==
  LET RECURSIVE sum(_)
      sum(i) == IF i = 0 THEN 0
                ELSE sum(i - 1) + (IF lengths[i] = 0 THEN 0
                                   ELSE Pow2(MaxBits - lengths[i]))
  IN sum(Len(lengths))

Incomplete(lengths) ==
  /\ Kraft(lengths) # Pow2(MaxBits)
  /\ Used(lengths) # {}
  /\ ~(Used(lengths) = {1} /\ count(lengths, 1) = 1)

\* C30: when the code lengths are not those of a complete code (the empty
\* table and the single code of length 1 apart), readHuffman returns the
\* error Corrupt and the program is not aborted.
C30_IncompleteIsCorrupt ==
  hf.on /\ hf.pc # "readHuffman" /\ Incomplete(hf.lengths)
  => hf.pc = "returned" /\ hf.err = "Corrupt"


(***************************************************************************)
(* Part IX.  normalize on every short name, and the name New stores for a  *)
(* member of that name.                                                    *)
(***************************************************************************)
NameChars == {"/", ".", "a"}
MaxName   == 2 * MaxLen
MemberNames == UNION {[1..n -> NameChars] : n \in 0..MaxName}

\* an archive of one regular file of the name has been handed to New
NormInit ==
  /\ \E name \in MemberNames :
       nz = [on |-> TRUE, name |-> name, pc |-> "New", fs |-> NoFS,
             normalized |-> <<>>]
  /\ blob = 1 /\ dec = <<>> /\ readers = <<>> /\ updates = <<>>
  /\ checkpoints = <<>> /\ decoded = FALSE
  /\ call = [p \in Procs |-> Idle] /\ ncalls = 0
  /\ arch = 0 /\ fsys = NoFS /\ restored = FALSE /\ op = NoOp
  /\ file = NoFile /\ fl = NoFlate /\ rg = NoRanger
  /\ hp = NoHeap /\ hf = NoHuff /\ pb = NoPub /\ ch = NoChan /\ ac = NoAcct /\ sr = NoSect

\* New(ra, size) on the archive
NormNew ==
  /\ nz.pc = "New"
  /\ nz' = [nz EXCEPT !.pc = "made",
                      !.normalized = normalize(nz.name),
                      !.fs = New(<<Hdr(nz.name, TypeReg, <<>>, 1)>>)]
  /\ UNCHANGED <<gsipVars, tarVars, fl, rg, hp, hf, pb, ch, ac, sr>>

\* Encode and Decode of the FS
NormEncodeDecode ==
  /\ nz.pc = "made"
  /\ nz' = [nz EXCEPT !.pc = "restored", !.fs = DecodeTOC(EncodeTOC(nz.fs))]
  /\ UNCHANGED <<gsipVars, tarVars, fl, rg, hp, hf, pb, ch, ac, sr>>

NormNext == NormNew \/ NormEncodeDecode

SpecNorm == NormInit /\ [][NormNext]_vars

Slash    == <<"/">>
DotSlash == <<".", "/">>

\* name is front, then kept, then back: front the leading "/" and "./" that
\* are taken, back the trailing "/" that is taken
Strips(name, front, kept, back) ==
  /\ name = front \o kept \o back
  /\ back \in {<<>>, Slash}
  /\ front \in {<<>>, Slash, DotSlash, Slash \o DotSlash}
  /\ back = Slash <=> HasSuffix(name, Slash)
  /\ HasPrefix(front, Slash) <=> HasPrefix(front \o kept, Slash)
  /\ HasSuffix(front, DotSlash)
       <=> HasPrefix(TrimPrefix(front \o kept, Slash), DotSlash)

\* C31: normalize takes from a member name one trailing "/", then one
\* leading "/", then one leading "./", each if it is there and no more than
\* one of each, and keeps the rest as it is, ".." included; the name New
\* stores for the member and the key of the index are that name, also
\* after Encode and Decode.
C31_Normalized ==
  nz.on /\ nz.pc # "New" =>
    /\ \E front, back \in {<<>>, Slash, DotSlash, Slash \o DotSlash} :
         Strips(nz.name, front, nz.normalized, back)
    /\ nz.fs.files[1].Filename = nz.normalized
    /\ DOMAIN nz.fs.index = {nz.normalized}

\* the member "//.." has been stored as "/..": of two slashes at the front
\* one is taken, and ".." stays
C31_Witness ==
  /\ nz.on /\ nz.pc = "made"
  /\ nz.name = <<"/", "/", ".", ".">>
  /\ nz.fs.files[1].Filename = <<"/", ".", ".">>


(***************************************************************************)
(* Part X.  The entry table of tarfs: collisions, offsets, directories.    *)
(***************************************************************************)

\* the members of the archive whose name normalizes to n
MembersNamed(n) ==
  {i \in 1..Len(Archives[arch]) : normalize(Archives[arch][i].Name) = n}

\* the names more than one member of the archive normalizes to
Colliding ==
  {n \in {normalize(Archives[arch][i].Name) : i \in 1..Len(Archives[arch])} :
     Cardinality(MembersNamed(n)) > 1}

\* the member of name n that is last in the archive
LastMember(n) == CHOOSE i \in MembersNamed(n) : \A j \in MembersNamed(n) : j <= i

\* what Open returns when it opens member i of the archive: the File of the
\* member if it is no link, else what open returns for the target of the link
OpenOfMember(i) ==
  LET h == Archives[arch][i]
      e == fsys.files[i]
  IN IF h.Typeflag \in {TypeSymlink, TypeLink}
     THEN FileOf(fsys, open(fsys,
            IF IsAbs(h.Linkname) \/ h.Typeflag = TypeLink
            THEN normalize(h.Linkname) ELSE Join(<<e.dir, h.Linkname>>), 1))
     ELSE [err |-> "nil", Filename |-> normalize(h.Name), fi |-> FileInfo(h),
           Offset |-> PayloadOffset(Archives[arch], i), Size |-> h.Size]

\* what each lookup by the name n returns when it answers from member i
AnswersFrom(n, i) ==
  LET h == Archives[arch][i]
  IN /\ Entry(fsys, n) = i
     /\ fsys.files[i].Header = h
     /\ Stat(fsys, n) = [err |-> "nil", fi |-> FileInfo(h)]
     /\ Readlink(fsys, n) = IF h.Typeflag \in {TypeSymlink, TypeLink}
                            THEN [err |-> "nil", link |-> h.Linkname]
                            ELSE [err |-> "NotALink"]

\* C32: when two members of the archive normalize to the same name, Entry,
\* Stat, Open and Readlink by that name all answer from the member that is
\* last in the archive.
C32_LastWriteWins ==
  \A n \in Colliding :
    /\ AnswersFrom(n, LastMember(n))
    /\ Open(fsys, n) = OpenOfMember(LastMember(n))

\* the same for every name but ".", which Open never looks up
LastWinsBelowRoot ==
  \A n \in Colliding :
    /\ AnswersFrom(n, LastMember(n))
    /\ n # Dot => Open(fsys, n) = OpenOfMember(LastMember(n))


\* the length of the archive: the headers, the padded payloads and the two
\* blocks of zeros at its end
ArchiveSize(hdrs) ==
  PayloadOffset(hdrs, Len(hdrs)) + Padded(hdrs, Len(hdrs)) + 2 * blockSize

\* entry i of the table is member i of the archive and starts right after
\* the header of that member, not before the entry that precedes it
InStreamOrder(i) ==
  /\ fsys.files[i].Header = Archives[arch][i]
  /\ fsys.files[i].Offset = PayloadOffset(Archives[arch], i)
  /\ i > 1 => fsys.files[i - 1].Offset <= fsys.files[i].Offset

\* C33: the entries are in the order of the tar stream, the offset of each is
\* the number of bytes consumed right after its header, offsets do not
\* decrease, and offset + size is at most the size of the archive.
C33_EntryTable ==
  \A i \in 1..Len(fsys.files) :
    /\ InStreamOrder(i)
    /\ fsys.files[i].Offset + fsys.files[i].Header.Size
         <= ArchiveSize(Archives[arch])

\* the same with offset + size bounded for the members that have data
EntryTableOfData ==
  \A i \in 1..Len(fsys.files) :
    /\ InStreamOrder(i)
    /\ ~isHeaderOnlyType(fsys.files[i].Header.Typeflag) =>
         fsys.files[i].Offset + fsys.files[i].Header.Size
           <= ArchiveSize(Archives[arch])


\* the prefixes of name that end before a slash of it
Prefixes(name) ==
  {SubSeq(name, 1, i - 1) : i \in {j \in 1..Len(name) : name[j] = "/"}}

\* the prefixes of name that are symlinks of fsys
SymlinkPrefixes(name) ==
  {d \in Prefixes(name) :
     /\ d \in DOMAIN fsys.index
     /\ fsys.files[fsys.index[d]].Header.Typeflag = TypeSymlink}

\* name with its prefix d, a symlink of fsys, replaced by the target of d
Through(name, d) ==
  LET e    == fsys.files[fsys.index[d]]
      rest == SubSeq(name, Len(d) + 1, Len(name))
  IN IF IsAbs(e.Header.Linkname)
     THEN normalize(Join(<<e.Header.Linkname, rest>>))
     ELSE Join(<<e.dir, e.Header.Linkname, rest>>)

\* C34: Open of a name that is not in the index returns what open returns for
\* the name rewritten through the shortest of its prefixes that is a symlink,
\* whatever longer prefixes are symlinks too, and fs.ErrNotExist when no
\* prefix is a symlink.
C34_ShortestPrefixWins ==
  /\ op.name = "Open"
  /\ op.arg # Dot
  /\ op.arg \notin DOMAIN fsys.index
  => IF SymlinkPrefixes(op.arg) = {}
     THEN op.res = [err |-> "ErrNotExist"]
     ELSE \E d \in SymlinkPrefixes(op.arg) :
            /\ \A l \in SymlinkPrefixes(op.arg) : Len(d) <= Len(l)
            /\ op.res = FileOf(fsys, open(fsys, Through(op.arg, d), 1))

\* "s/t/f" has been opened where "s" and "s/t" are both symlinks: the name
\* was rewritten through "s" to "e/t/f", which does not exist, and not
\* through "s/t" to "e/f", which does
C34_Witness ==
  /\ op.name = "Open"
  /\ op.arg = <<"s", "/", "t", "/", "f">>
  /\ op.arg \notin DOMAIN fsys.index
  /\ Cardinality(SymlinkPrefixes(op.arg)) = 2
  /\ Through(op.arg, <<"s">>) = <<"e", "/", "t", "/", "f">>
  /\ Open(fsys, Through(op.arg, <<"s", "/", "t">>)).err = "nil"
  /\ op.res = [err |-> "ErrNotExist"]


(***************************************************************************)
(* Part XI.  The offsets a decoder reports.                                *)
(***************************************************************************)

\* C35: after any Reads of a decoder its Woffset() is the offset it started
\* at plus the number of bytes those Reads returned, also when a Read was
\* given a buffer smaller than the chunk flushed from the window.
C35_WoffsetIsReturned ==
  fl.on => Woffset(fl.d) = fl.from + fl.n

\* what holds instead: Woffset() is ahead of the bytes returned by the bytes
\* flushed from the window and not yet handed out
WoffsetCountsFlushed ==
  fl.on => Woffset(fl.d) = fl.from + fl.n + Len(fl.d.toRead)


(***************************************************************************)
(* Part XII.  What a checkpoint counts.  A gzip.Reader that sends          *)
(* checkpoints is read turn by turn; ac.n is the number of bytes its Reads *)
(* have returned, and ac.sent keeps every checkpoint finishBlock sent      *)
(* together with the number of bytes decoded when it was sent.             *)
(***************************************************************************)
\* the streams read: the blobs (Huffman blocks), the stream of stored blocks
\* and the stream of many members
AcctStreams == 1..Len(Streams)

\* the bytes decoder d has decoded besides those its Reads have returned:
\* those flushed into toRead and those still in the window
Held_Back(d) == Len(d.toRead) + (d.wrPos - d.rdPos)

AcctInit ==
  /\ blob \in AcctStreams
  /\ \E span \in 0..Span :
       ac = [on |-> TRUE, d |-> NewReaderWithSpans(span, gzipHeaderLen, TRUE),
             n |-> 0, sent |-> <<>>, rerr |-> "nil"]
  /\ dec = <<>> /\ readers = <<>> /\ updates = <<>>
  /\ checkpoints = <<>> /\ decoded = FALSE
  /\ call = [p \in Procs |-> Idle] /\ ncalls = 0
  /\ arch = 0 /\ fsys = NoFS /\ restored = FALSE /\ op = NoOp
  /\ file = NoFile /\ fl = NoFlate /\ rg = NoRanger
  /\ hp = NoHeap /\ hf = NoHuff /\ pb = NoPub /\ ch = NoChan /\ nz = NoNorm /\ sr = NoSect

\* one turn of z.Read(p) with len(p) = k; finishBlock, when a turn runs it,
\* is the last thing the turn does to the window
AcctTurn(k) ==
  /\ ac.on
  /\ ac.rerr = "nil"
  /\ LET t == gzipReadTurn(ac.d, k)
         n == ac.n + Len(t.out)
     IN ac' = [ac EXCEPT
          !.d    = [t.d EXCEPT !.emit = <<>>],
          !.n    = n,
          !.rerr = IF t.ret THEN t.rerr ELSE "nil",
          !.sent = ac.sent \o
                   [i \in 1..Len(SelectSeq(t.d.emit, LAMBDA c : ~c.Empty)) |->
                      [ck      |-> SelectSeq(t.d.emit, LAMBDA c : ~c.Empty)[i],
                       decoded |-> n + Held_Back(t.d)]]]
  /\ UNCHANGED <<gsipVars, tarVars, fl, rg, hp, hf, pb, ch, nz, sr>>

AcctNext == \E k \in 1..MaxLen : AcctTurn(k)

SpecAcct == AcctInit /\ [][AcctNext]_vars

\* C36: at every checkpoint finishBlock sends, Out plus the bytes pending in
\* the captured window (WrPos - RdPos) is the number of bytes decoded so far:
\* no byte that has been flushed to the output is missing from Out.
C36_OutCountsFlushed ==
  ac.on =>
    \A i \in 1..Len(ac.sent) :
      ac.sent[i].ck.Out + (ac.sent[i].ck.WrPos - ac.sent[i].ck.RdPos)
        = ac.sent[i].decoded

\* checkpoints have been sent at the end of a stored block with a byte
\* pending in the window, at the end of an empty stored block (the second of
\* two; the first flushed the pending byte) and at the end of a final block
C36_Witness ==
  /\ ac.on
  /\ blob = Len(Blobs) + 1
  /\ \E i \in 1..Len(ac.sent) :
       /\ ac.sent[i].ck.In = Len(EmptyMember) + gzipHeaderLen + 18
       /\ ac.sent[i].ck.Out = 3
       /\ ac.sent[i].ck.WrPos = ac.sent[i].ck.RdPos
       /\ ac.sent[i].decoded = 3
  /\ \E i \in 1..Len(ac.sent) :
       /\ ac.sent[i].ck.Out = 2
       /\ ac.sent[i].ck.WrPos - ac.sent[i].ck.RdPos = 1
       /\ ac.sent[i].decoded = 3
  /\ \E i \in 1..Len(ac.sent) :
       /\ ac.sent[i].ck.Out = Len(Plain)
       /\ ac.sent[i].decoded = Len(Plain)


(***************************************************************************)
(* Part XIII.  The directory listings of tarfs as a tree.                  *)
(***************************************************************************)

\* the names ReadDir(d) lists
Listed(d) == {ReadDir(fsys, d)[k].Filename : k \in 1..Len(ReadDir(fsys, d))}

\* the names reached from the names in S by n rounds of ReadDir
RECURSIVE Reach(_, _)
Reach(S, n) ==
  IF n = 0 THEN S ELSE Reach(S \cup UNION {Listed(d) : d \in S}, n - 1)

\* C37: every entry of the index is reached from "." through ReadDir
\* listings: it is listed under its parent directory, and so is its parent,
\* up to the root, whether or not the archive has members for the
\* directories on the way.
C37_AllReachable ==
  arch # 0 /\ ~restored =>
    \A i \in 1..Len(fsys.files) :
      fsys.files[i].Filename \in Reach({Dot}, Len(fsys.files))

\* every entry is listed by ReadDir of the directory its name lies in
ListedUnderDir ==
  arch # 0 /\ ~restored =>
    \A i \in 1..Len(fsys.files) :
      fsys.files[i].Filename \in Listed(Dir(fsys.files[i].Filename))


\* C38: no directory lists itself: ReadDir(d) returns no entry whose path is
\* d, and ReadDir(".") none named "." also when the archive has a member "./".
C38_NoSelfListing ==
  op.name = "ReadDir" =>
    \A k \in 1..Len(op.res) : op.res[k].Filename # op.arg

\* the same for every directory but the root
NoSelfListingBelowRoot ==
  op.name = "ReadDir" /\ op.arg # Dot =>
    \A k \in 1..Len(op.res) : op.res[k].Filename # op.arg


(***************************************************************************)
(* Part XIV.  ReadAt calls that wait for the channel.  The calls of Part I *)
(* with the sends of Part VII: a discard or a read of the frontier leaves  *)
(* its checkpoints in ch.pending, each send is a step of its own that      *)
(* waits for room in the channel, and the call that sends goes on when its *)
(* last checkpoint is sent.  Only the frontier sends, and one call at a    *)
(* time holds it; ch.by is the call whose sends are in ch.pending.         *)
(***************************************************************************)
\* the offsets the calls are made with: the start of the stream, which the
\* frontier serves, and its last byte
LiveOffs == {0, Len(Plain) - 1}

LiveInit ==
  /\ blob = Len(Streams)
  /\ dec = (Frontier :> gzipNewReader)
  /\ readers = (Frontier :> TRUE)
  /\ updates = <<MemberCheckpoint(gzipHeaderLen, 0)>>
  /\ checkpoints = <<>>
  /\ ch = [on |-> TRUE, pending |-> <<>>,
           sent |-> <<MemberCheckpoint(gzipHeaderLen, 0)>>, by |-> 0]
  /\ decoded = FALSE
  /\ call = [p \in Procs |-> Idle] /\ ncalls = 0
  /\ arch = 0 /\ fsys = NoFS /\ restored = FALSE /\ op = NoOp
  /\ file = NoFile /\ fl = NoFlate /\ rg = NoRanger
  /\ hp = NoHeap /\ hf = NoHuff /\ pb = NoPub /\ nz = NoNorm /\ ac = NoAcct
  /\ sr = (Frontier :> NewSectionReader(0, size))

\* no send of the call of p waits
SendsDone(p) == ch.pending = <<>> \/ ch.by # p

\* the sends a step of p leaves to be made
Leaves(p, emit) ==
  ch' = IF emit = <<>> THEN ch ELSE [ch EXCEPT !.pending = emit, !.by = p]

\* p calls ReadAt(p, off) with len(p) = MaxLen
LiveReadAt(p, off) ==
  /\ SendsDone(p)
  /\ ReadAt(p, off, MaxLen)

\* the discard of acquireReader, its sends left in ch.pending
LiveDiscard(p) ==
  /\ call[p].pc = "discard"
  /\ SendsDone(p)
  /\ LET c == call[p]
         r == CopyN(dec[c.zr], c.rem, <<>>)
     IN /\ Leaves(p, r.emit)
        /\ dec' = [dec EXCEPT ![c.zr] = r.d]
        /\ IF r.err = "nil"
           THEN /\ call' = [call EXCEPT ![p].pc = "read", ![p].rem = 0]
                /\ readers' = IF c.path = "resume"
                              THEN (c.zr :> FALSE) @@ readers ELSE readers
           ELSE /\ call' = [call EXCEPT ![p].pc = "done", ![p].err = r.err]
                /\ UNCHANGED readers
  /\ UNCHANGED <<blob, updates, checkpoints, decoded, ncalls, tarVars, fl, rg,
                 hp, hf, pb, nz, ac, sr>>

\* return io.ReadFull(zr, p), its sends left in ch.pending; the call has
\* passed its discard when the sends of the discard are through
LiveRead(p) ==
  /\ call[p].pc = "read"
  /\ SendsDone(p)
  /\ LET c == call[p]
         r == ReadFull(dec[c.zr], c.len, <<>>, <<>>)
     IN /\ Leaves(p, r.emit)
        /\ dec' = [dec EXCEPT ![c.zr] = r.d]
        /\ call' = [call EXCEPT ![p].pc = "release", ![p].buf = r.buf,
                                ![p].err = r.err]
  /\ UNCHANGED <<blob, readers, updates, checkpoints, decoded, ncalls, tarVars,
                 fl, rg, hp, hf, pb, nz, ac, sr>>

\* the deferred function of ReadAt, run when io.ReadFull has returned
LiveRelease(p) ==
  /\ SendsDone(p)
  /\ Release(p)

\* the steps of the call of p
LiveStep(p) ==
  \/ Scan(p)
  \/ Fallback(p)
  \/ LiveDiscard(p)
  \/ LiveRead(p)
  \/ LiveRelease(p)

LiveNext ==
  \/ Consume
  \/ ChanSend
  \/ \E p \in Procs, off \in LiveOffs : LiveReadAt(p, off)
  \/ \E p \in Procs : LiveStep(p)

\* the call of p can take a step: it is in flight and does not wait in a send
CanStep(p) ==
  \/ call[p].pc \in {"scan", "fallback"}
  \/ call[p].pc \in {"discard", "read", "release"} /\ SendsDone(p)

\* the call of p takes a step
Stepped(p) == InCall(p) /\ call'[p] # call[p]

\* every goroutine that can run does run: the goroutine of NewReader
\* receives, a send that has room is made, and a call that can take a step
\* takes one.  For the calls this is WF_vars(LiveStep(p)) written out:
\* CanStep(p) is ENABLED <<LiveStep(p)>>_vars, and the steps of LiveNext that
\* change call[p] while the call is in flight are those of LiveStep(p).
SpecLive ==
  /\ LiveInit /\ [][LiveNext]_vars
  /\ WF_vars(Consume)
  /\ WF_vars(ChanSend)
  /\ \A p \in Procs : []<>(~CanStep(p)) \/ []<><<Stepped(p)>>_vars

\* ReadAt of p has returned: the call is through and no send of it waits
Returned(p) == call[p].pc = "done" /\ SendsDone(p)

\* C39: under fair scheduling every ReadAt call returns: a call in flight
\* leads to its return, and a send that waits for room in the channel leads
\* to room in the channel.
C39_EveryCallReturns ==
  /\ \A p \in Procs : InCall(p) ~> Returned(p)
  /\ (ch.pending # <<>> /\ Len(updates) = ChanCap) ~> (Len(updates) < ChanCap)

\* a call holds the frontier, its send waits for room in the channel, and
\* every other call is in flight too
C39_Witness ==
  /\ ch.on /\ ch.pending # <<>> /\ Len(updates) = ChanCap
  /\ \A p \in Procs : InCall(p) \/ (call[p].pc = "done" /\ ~SendsDone(p))

(***************************************************************************)
(* Part XV: the section of r.ra behind each decoder.  NewReader reads the  *)
(* frontier through bufio.NewReaderSize(sr, 1<<20) over                    *)
(* io.NewSectionReader(ra, 0, size); acquireReader hands a resumed decoder *)
(* io.NewSectionReader(r.ra, highest.In, r.size), which makeReader wraps   *)
(* in bufio.NewReader since a SectionReader has no ReadByte.  A buffered   *)
(* reader fills its buffer with one Read of the section, and the section   *)
(* passes it to r.ra clipped to its own limit.                             *)
(***************************************************************************)
frontierBufSize == 1048576   \* 1<<20
defaultBufSize  == 4096      \* the buffer of bufio.NewReader

\* the buffer between decoder id and its section
BufSize(id) == IF id = Frontier THEN frontierBufSize ELSE defaultBufSize

\* s.Read(p) with len(p) = n at position pos of r: the bytes [off, end) that
\* the section asks of r.ReadAt, none (off = end) at or behind its limit
SectionRead(s, pos, n) ==
  IF pos >= s.limit THEN [off |-> pos, end |-> pos]
  ELSE [off |-> pos, end |-> pos + Min(n, s.limit - pos)]

\* The reads r.ra has been asked for on behalf of decoder id: one fill of
\* the buffer for every BufSize(id) bytes up to the byte the decoder has
\* come to.
Fills(id) ==
  LET s == sr[id]
      n == BufSize(id)
  IN IF dec[id].roffset <= s.base THEN {}
     ELSE { SectionRead(s, s.base + i * n, n) :
              i \in 0..((dec[id].roffset - s.base - 1) \div n) }

\* C40: the compressed section handed to a decoder never extends past the
\* blob: the frontier's section is [0, size), the section of a decoder
\* resumed from a checkpoint ck is [ck.In, size), and no decoder asks r.ra
\* for a byte at or beyond offset size.
C40_SectionWithinBlob ==
  \A id \in DOMAIN sr :
    /\ sr[id].limit = size
    /\ id = Frontier => sr[id].base = 0
    /\ \A q \in Fills(id) : q.end <= size

\* what holds instead: a resumed section is as long as the blob, so it ends
\* as far behind the blob as it starts behind its beginning
SectionIsBlobLong ==
  \A id \in DOMAIN sr : sr[id].limit = sr[id].base + size

\* a resumed decoder has filled its buffer with a read that runs past the blob
ReadPastBlob ==
  \E id \in DOMAIN sr : id # Frontier /\ \E q \in Fills(id) : q.end > size

\* the frontier alone keeps to the blob
FrontierWithinBlob ==
  Frontier \in DOMAIN sr =>
    /\ sr[Frontier] = [base |-> 0, limit |-> size]
    /\ \A q \in Fills(Frontier) : q.end <= size

=============================================================================
